---- MODULE Spec2Model ----
(***************************************************************************)
(* A model of the stargame simulation core (class GameEngine): the ship,   *)
(* the entity collections, the per-frame pipeline                          *)
(*   processInput -> update -> checkCollisions -> cleanupInactiveObjects   *)
(*   -> updatePowerUpSpawn -> updateEnemySpawn -> render,                  *)
(* the weapon cooldown, the power-up effects with their setTimeout         *)
(* reverts, and the browser around it (clock, animation frames, timers,    *)
(* keyboard events).                                                       *)
(*                                                                         *)
(* Units.  Every time is kept in milliseconds, also the ones the code      *)
(* keeps in seconds (deltaTime, invulnerabilityTime, shieldTime, lifeTime, *)
(* duration, the spawn countdowns): 3 s is 3000.  Positions are pixels.    *)
(* A fire rate is kept in shots per 10 s (3/s is 30, 1.5/s is 15).         *)
(*                                                                         *)
(* Motion.  velocity * deltaTime of an asteroid, enemy, bullet or power-up *)
(* is a product of a random velocity and a measured frame time; the model  *)
(* takes the place an entity is moved to by its update as an input of the  *)
(* frame, drawn from Points.  Every Math.random() result is an input too.  *)
(*                                                                         *)
(* Engines.  g is the engine the screen's ref points to.  g.replaced is    *)
(* not a field of the engine: it holds the engines the screen has replaced *)
(* by a new one; nothing stops them, so their frame callbacks and timers   *)
(* go on running.                                                          *)
(*                                                                         *)
(* Observations.  The field g.fx is not a field of the engine: it records  *)
(* what the handler that ran last did (how often handleShipCollision was   *)
(* called, what was removed, which power-up was collected), so that the    *)
(* properties can speak about one handler run.  The fields hits1 and hits2 *)
(* of an asteroid or enemy count the hits it took by damage, the fields    *)
(* kind and age of a bullet tell the weapon that fired it and the sum of   *)
(* the deltaTime of the updates it went through; the fields                *)
(* lastWeaponPickup and lastVolley (clock values, -1 for none) of g are    *)
(* observations too, and so is sinceHit, the sum of the deltaTime of the   *)
(* updates since the last ship hit (-1 for none);                          *)
(* fx.volleyGap is the time since the volley before and                    *)
(* fx.hitAt lists where the ship was at each handleShipCollision call,     *)
(* fx.levelSpawned counts the enemies the level-up spawns added, fx.volley *)
(* holds the bullets the handler's fireWeapon call created, fx.moved where *)
(* the motion put the ship and the enemies before the wrap, fx.flown the   *)
(* active bullets of the ship as update left them, before the collisions,  *)
(* fx.deltaTime the deltaTime the frame computed, fx.stages the stages of  *)
(* the frame in the order they ran, fx.shipBefore the ship and fx.incoming *)
(* the active enemy bullets when checkCollisions began, fx.bulletHits the  *)
(* enemy bullets resolved against the ship and fx.absorbed those of them   *)
(* that the shield took, fx.spawned what was added to the collections,     *)
(* where, and where the ship was at that moment, fx.enemyShots the shots   *)
(* of the enemies: who fired, from where, heading where, at a ship where,  *)
(* and the bullet, fx.expired the bullets that update deactivated.         *)
(***************************************************************************)
EXTENDS Integers, Sequences, FiniteSets, TLC

VARIABLES
    g,          \* the GameEngine instance: its fields
    now,        \* performance.now(), ms
    raf,        \* number of pending requestAnimationFrame(gameLoop) callbacks
    frameDue,   \* frame callbacks the current display refresh has to run
    frameDone,  \* frame callbacks already run in the current display refresh
    listening,  \* keydown/keyup listeners registered on window
    disposed    \* dispose() has been called

vars == <<g, now, raf, frameDue, frameDone, listening, disposed>>

----------------------------------------------------------------------------
(* Bounds of the model *)

\* the clock of Spec stops advancing at MaxNow ms
MaxNow == 30000

\* start() is called at most MaxStarts times
MaxStarts == 1

\* with the retries of SpecRetry, start() is called at most RetryMaxStarts times
RetryMaxStarts == 2

\* the screen replaces its engine by a new one at most MaxRetries times
MaxRetries == 1

----------------------------------------------------------------------------
(* Geometry *)

Canvas == [width |-> 800, height |-> 600]

Center == [x |-> Canvas.width \div 2, y |-> Canvas.height \div 2]
Far    == [x |-> 600, y |-> 300]
Away   == [x |-> 100, y |-> 100]

Points == {Center, Far, Away}

\* a pair of Math.random() results, in thousandths
DrawCenter == [x |-> 500, y |-> 500]
DrawFar    == [x |-> 750, y |-> 500]
DrawCorner == [x |-> 999, y |-> 999]

\* a window so small that the whole canvas is within 200 of any point of it
Tiny == [width |-> 100, height |-> 100]

\* x: Math.random() * canvas.width, y: Math.random() * canvas.height
At(draw, canvas) ==
    [x |-> (draw.x * canvas.width) \div 1000, y |-> (draw.y * canvas.height) \div 1000]

\* distance(a, b) < limit, as the code's Math.sqrt(dx^2 + dy^2) < limit
Closer(a, b, limit) ==
    (a.x - b.x) * (a.x - b.x) + (a.y - b.y) * (a.y - b.y) < limit * limit

\* every point of the canvas is closer to p than limit: its four corners are
NoSafePoint(canvas, p, limit) ==
    \A cx \in {0, canvas.width}, cy \in {0, canvas.height} :
        Closer([x |-> cx, y |-> cy], p, limit)

\* the circle-circle test with touching circles taken for colliding
Collides_Inclusive(a, b) ==
    (a.position.x - b.position.x) * (a.position.x - b.position.x)
      + (a.position.y - b.position.y) * (a.position.y - b.position.y)
        <= (a.size + b.size) * (a.size + b.size)

\* the circle-circle test of checkCollisions
Collides(a, b) == Closer(a.position, b.position, a.size + b.size)

\* cos and sin (times 1000) of the headings the model uses, in degrees
Cos1000(deg) ==
    LET a == IF deg < 0 THEN -deg ELSE deg IN
    CASE a = 0 -> 1000 [] a = 15 -> 966 [] a = 18 -> 951 [] a = 30 -> 866
      [] a = 36 -> 809 [] a = 45 -> 707 [] a = 90 -> 0 [] a = 180 -> -1000
      [] OTHER -> 0

Sin1000(deg) ==
    LET a == IF deg < 0 THEN -deg ELSE deg
        s == CASE a = 0 -> 0 [] a = 15 -> 259 [] a = 18 -> 309 [] a = 30 -> 500
               [] a = 36 -> 588 [] a = 45 -> 707 [] a = 90 -> 1000 [] a = 180 -> 0
               [] OTHER -> 0
    IN IF deg < 0 THEN -s ELSE s

\* a point at `size` pixels from `position` in direction `deg`
Muzzle(position, deg, size) ==
    [x |-> position.x + (Cos1000(deg) * size) \div 1000,
     y |-> position.y + (Sin1000(deg) * size) \div 1000]

----------------------------------------------------------------------------
(* Weapons *)

createBasicWeapon ==
    [kind |-> "basic", fireRate |-> 30, lastFireTime |-> 0, bulletSpeed |-> 400,
     bulletSize |-> 3, bulletDamage |-> 1, lifeTime |-> 2000]

createAdvancedWeapon ==
    [kind |-> "advanced", fireRate |-> 50, lastFireTime |-> 0, bulletSpeed |-> 500,
     bulletSize |-> 4, bulletDamage |-> 2, lifeTime |-> 3000]

createEnemyWeapon ==
    [kind |-> "enemy", fireRate |-> 15, lastFireTime |-> 0, bulletSpeed |-> 117,
     bulletSize |-> 5, bulletDamage |-> 1, lifeTime |-> 3000]

\* weapon.canFire() at clock t: t - lastFireTime >= 1000 / fireRate
canFire(w, t) == (t - w.lastFireTime) * w.fireRate >= 10000

\* the bullet weapon.fire(position, rotation, fromEnemy) returns
fire(w, position, rotation, fromEnemy) ==
    [position |-> position, rotation |-> rotation, speed |-> w.bulletSpeed,
     size |-> w.bulletSize, active |-> TRUE, lifeTime |-> w.lifeTime,
     damage |-> w.bulletDamage, fromEnemy |-> fromEnemy,
     kind |-> w.kind, age |-> 0]

----------------------------------------------------------------------------
(* The ship *)

createShip ==
    [position |-> Center,
     velocity |-> [x |-> 0, y |-> 0],
     size |-> 20, rotation |-> 0,
     thrust |-> 0, maxThrust |-> 200, isThrusting |-> FALSE,
     lives |-> 3, isInvulnerable |-> FALSE, invulnerabilityTime |-> 0,
     canvasWidth |-> Canvas.width, canvasHeight |-> Canvas.height,
     weapon |-> createBasicWeapon,
     hasShield |-> FALSE, shieldTime |-> 0, multiShotLevel |-> 0]

\* the wrap with an inclusive second test
WrapCenter_Inclusive(p, w, h) ==
    LET x1 == IF p.x < 0 THEN w ELSE p.x
        x2 == IF x1 >= w THEN 0 ELSE x1
        y1 == IF p.y < 0 THEN h ELSE p.y
        y2 == IF y1 >= h THEN 0 ELSE y1
    IN [x |-> x2, y |-> y2]

\* the ship's screen wrap: the center crossing an edge
WrapCenter(p, w, h) ==
    LET x1 == IF p.x < 0 THEN w ELSE p.x
        x2 == IF x1 > w THEN 0 ELSE x1
        y1 == IF p.y < 0 THEN h ELSE p.y
        y2 == IF y1 > h THEN 0 ELSE y1
    IN [x |-> x2, y |-> y2]

\* the screen wrap of an asteroid: its whole body beyond an edge
WrapAsteroid(p, size, w, h) ==
    LET x1 == IF p.x - size > w THEN -size ELSE p.x
        x2 == IF x1 + size < 0 THEN w + size ELSE x1
        y1 == IF p.y - size > h THEN -size ELSE p.y
        y2 == IF y1 + size < 0 THEN h + size ELSE y1
    IN [x |-> x2, y |-> y2]

\* the screen wrap of a power-up: its whole body beyond an edge
WrapPowerUp(p, size, w, h) ==
    LET x1 == IF p.x < -size THEN w + size ELSE p.x
        x2 == IF x1 > w + size THEN -size ELSE x1
        y1 == IF p.y < -size THEN h + size ELSE p.y
        y2 == IF y1 > h + size THEN -size ELSE y1
    IN [x |-> x2, y |-> y2]

\* ship.update(deltaTime): position += velocity * deltaTime, before the wrap
ShipMoved(s, dt) ==
    [x |-> s.position.x + (s.velocity.x * dt) \div 1000,
     y |-> s.position.y + (s.velocity.y * dt) \div 1000]

\* ShipUpdate with the end of the invulnerability strict: time < 0
ShipUpdate_LongGrace(s, dt) ==
    LET pos == ShipMoved(s, dt)
        vel == [x |-> (s.velocity.x * 98) \div 100, y |-> (s.velocity.y * 98) \div 100]
        thr == IF s.isThrusting /\ s.thrust < s.maxThrust
               THEN LET t == s.thrust + (s.maxThrust * dt) \div 1000
                    IN IF t > s.maxThrust THEN s.maxThrust ELSE t
               ELSE IF ~s.isThrusting THEN (s.thrust * 98) \div 100
               ELSE s.thrust
        vel2 == IF thr > 0
                THEN [x |-> vel.x + (Cos1000(s.rotation) * thr * dt) \div 1000000,
                      y |-> vel.y + (Sin1000(s.rotation) * thr * dt) \div 1000000]
                ELSE vel
        invT == IF s.isInvulnerable THEN s.invulnerabilityTime - dt
                ELSE s.invulnerabilityTime
        inv  == s.isInvulnerable /\ ~(invT < 0)
        shT  == IF s.hasShield THEN s.shieldTime - dt ELSE s.shieldTime
        sh   == s.hasShield /\ ~(shT <= 0)
    IN [s EXCEPT !.position = WrapCenter(pos, s.canvasWidth, s.canvasHeight),
                 !.velocity = vel2, !.thrust = thr,
                 !.isInvulnerable = inv, !.invulnerabilityTime = invT,
                 !.hasShield = sh, !.shieldTime = shT]

\* ship.update(deltaTime)
ShipUpdate(s, dt) ==
    LET pos == ShipMoved(s, dt)
        vel == [x |-> (s.velocity.x * 98) \div 100, y |-> (s.velocity.y * 98) \div 100]
        thr == IF s.isThrusting /\ s.thrust < s.maxThrust
               THEN LET t == s.thrust + (s.maxThrust * dt) \div 1000
                    IN IF t > s.maxThrust THEN s.maxThrust ELSE t
               ELSE IF ~s.isThrusting THEN (s.thrust * 98) \div 100
               ELSE s.thrust
        vel2 == IF thr > 0
                THEN [x |-> vel.x + (Cos1000(s.rotation) * thr * dt) \div 1000000,
                      y |-> vel.y + (Sin1000(s.rotation) * thr * dt) \div 1000000]
                ELSE vel
        invT == IF s.isInvulnerable THEN s.invulnerabilityTime - dt
                ELSE s.invulnerabilityTime
        inv  == s.isInvulnerable /\ ~(invT <= 0)
        shT  == IF s.hasShield THEN s.shieldTime - dt ELSE s.shieldTime
        sh   == s.hasShield /\ ~(shT <= 0)
    IN [s EXCEPT !.position = WrapCenter(pos, s.canvasWidth, s.canvasHeight),
                 !.velocity = vel2, !.thrust = thr,
                 !.isInvulnerable = inv, !.invulnerabilityTime = invT,
                 !.hasShield = sh, !.shieldTime = shT]

----------------------------------------------------------------------------
(* Observations of one handler run *)

NoFx ==
    [handler |-> "none", shipHits |-> 0, bodyHits |-> 0, volleys |-> 0,
     asteroidKills |-> 0, enemyKills |-> 0, killHits |-> <<>>, playerHits |-> 0,
     collected |-> "none", levelBefore |-> 0, weaponBefore |-> "none",
     volleyGap |-> -1, volleyRate |-> 0, scoreBefore |-> 0, stuck |-> FALSE,
     hitAt |-> <<>>, levelSpawned |-> 0, volley |-> <<>>, endless |-> FALSE,
     moved |-> [ship |-> <<>>, enemies |-> <<>>], flown |-> <<>>,
     deltaTime |-> 0, stages |-> <<>>,
     shipBefore |-> <<>>, incoming |-> <<>>, absorbed |-> 0, bulletHits |-> 0,
     spawned |-> <<>>, enemyShots |-> <<>>, expired |-> <<>>]

\* an entity of `kind` enters its collection at `position`
Spawned(e, kind, position) ==
    [e EXCEPT !.fx.spawned =
        Append(@, [kind |-> kind, position |-> position, ship |-> e.ship.position])]

\* the stage `name` of a frame has run
Stage(e, name) == [e EXCEPT !.fx.stages = Append(@, name)]

ResetFx(e, name) ==
    [e EXCEPT !.fx = [NoFx EXCEPT !.handler = name, !.scoreBefore = e.score]]

----------------------------------------------------------------------------
(* Sequences *)

RemoveAt(seq, j) == SubSeq(seq, 1, j - 1) \o SubSeq(seq, j + 1, Len(seq))

\* the least index of seq whose element satisfies Test, 0 when there is none
FirstIndex(seq, Test(_)) ==
    LET S == {i \in 1..Len(seq) : Test(seq[i])}
    IN IF S = {} THEN 0 ELSE CHOOSE i \in S : \A k \in S : i <= k

----------------------------------------------------------------------------
(* Firing *)

\* SpreadAngles with case 3 lacking its third angle
SpreadAngles_Symmetric(level, rotation) ==
    CASE level <= 0 -> <<>>
      [] level = 1 -> <<rotation + 15>>
      [] level = 2 -> <<rotation - 15, rotation + 15>>
      [] level = 3 -> <<rotation - 18, rotation + 18>>
      [] level = 4 -> <<rotation - 15, rotation + 15, rotation - 30, rotation + 30>>
      [] OTHER     -> <<rotation - 15, rotation + 15, rotation - 30, rotation + 30,
                        rotation - 45, rotation + 45>>

\* the spread angles of fireWeapon's switch on multiShotLevel, in degrees
SpreadAngles(level, rotation) ==
    CASE level <= 0 -> <<>>
      [] level = 1 -> <<rotation + 15>>
      [] level = 2 -> <<rotation - 15, rotation + 15>>
      [] level = 3 -> <<rotation - 18, rotation + 18, rotation - 36>>
      [] level = 4 -> <<rotation - 15, rotation + 15, rotation - 30, rotation + 30>>
      [] OTHER     -> <<rotation - 15, rotation + 15, rotation - 30, rotation + 30,
                        rotation - 45, rotation + 45>>

\* GameEngine.fireWeapon at clock t
fireWeapon(e, t) ==
    IF canFire(e.ship.weapon, t)
    THEN LET s == e.ship
             w == s.weapon
             angles == <<s.rotation>> \o SpreadAngles(s.multiShotLevel, s.rotation)
             volley == [k \in 1..Len(angles) |->
                          fire(w, Muzzle(s.position, angles[k], s.size), angles[k], FALSE)]
         IN [e EXCEPT !.bullets = @ \o volley,
                      !.ship.weapon.lastFireTime = t,
                      !.fx.volleys = @ + 1,
                      !.fx.volley = @ \o volley,
                      !.fx.volleyGap = IF e.lastVolley < 0 THEN -1 ELSE t - e.lastVolley,
                      !.fx.volleyRate = w.fireRate,
                      !.lastVolley = t]
    ELSE e

\* Math.atan2(to.y - from.y, to.x - from.x) in degrees, to the nearest octant
AngleTo(from, to) ==
    LET dx == to.x - from.x
        dy == to.y - from.y
    IN CASE dy = 0 /\ dx >= 0 -> 0
         [] dy = 0 /\ dx < 0  -> 180
         [] dx = 0 /\ dy > 0  -> 90
         [] dx = 0 /\ dy < 0  -> -90
         [] dx > 0 /\ dy > 0  -> 45
         [] dx > 0 /\ dy < 0  -> -45
         [] dx < 0 /\ dy > 0  -> 135
         [] OTHER             -> -135

\* Math.atan2(Math.sin(d), Math.cos(d)): d brought into (-180, 180]
NormalizeAngle(d) ==
    LET m == d % 360 IN IF m > 180 THEN m - 360 ELSE m

Abs(n) == IF n < 0 THEN -n ELSE n

\* the shot of the enemy at index j, as the observations keep it
EnemyShot(e, j, bullet) ==
    [index |-> j, from |-> e.enemies[j].position, rotation |-> e.enemies[j].rotation,
     ship |-> e.ship.position, bullet |-> bullet]

\* enemyFireWeapon without the test of the heading
enemyFireWeapon_AnyHeading(e, j, t) ==
    LET enemy  == e.enemies[j]
        bullet == fire(enemy.weapon, Muzzle(enemy.position, enemy.rotation, enemy.size),
                       enemy.rotation, TRUE)
    IN IF canFire(enemy.weapon, t)
       THEN [e EXCEPT !.bullets = Append(@, bullet),
                      !.enemies[j].weapon.lastFireTime = t,
                      !.fx.enemyShots = Append(@, EnemyShot(e, j, bullet))]
       ELSE e

\* GameEngine.enemyFireWeapon(enemy) for the enemy at index j, at clock t
enemyFireWeapon(e, j, t) ==
    LET enemy  == e.enemies[j]
        diff   == NormalizeAngle(AngleTo(enemy.position, e.ship.position) - enemy.rotation)
        bullet == fire(enemy.weapon, Muzzle(enemy.position, enemy.rotation, enemy.size),
                       enemy.rotation, TRUE)
    IN IF canFire(enemy.weapon, t) /\ Abs(diff) < 30
       THEN [e EXCEPT !.bullets = Append(@, bullet),
                      !.enemies[j].weapon.lastFireTime = t,
                      !.fx.enemyShots = Append(@, EnemyShot(e, j, bullet))]
       ELSE e

----------------------------------------------------------------------------
(* Spawning *)

\* the do-while of generateAsteroids/generateEnemies and the retry of
\* generatePowerUp: the first of the random samples that is not closer to the
\* ship than safeDistance; 0 when the samples drawn so far are all rejected
Accepted(samples, canvas, shipPosition, safeDistance) ==
    FirstIndex(samples, LAMBDA r : ~Closer(At(r, canvas), shipPosition, safeDistance))

\* the sampling is still going on after the draws given (fx.stuck); it cannot
\* end when the canvas has no point to accept (fx.endless): the do-while
\* spins forever, generatePowerUp calls itself until the stack is exhausted
Rejecting(e, safeDistance) ==
    [e EXCEPT !.fx.stuck = TRUE,
              !.fx.endless = @ \/ NoSafePoint(e.canvas, e.ship.position, safeDistance)]

\* generatePowerUp that keeps its first draw
generatePowerUp_FirstDraw(e, in) ==
    LET at == At(in.samples[1], e.canvas)
    IN [Spawned(e, "powerUp", at) EXCEPT !.powerUps = Append(@,
            [position |-> at, size |-> 15, type |-> in.puType,
             active |-> TRUE, duration |-> 10000,
             canvasWidth |-> e.canvas.width, canvasHeight |-> e.canvas.height])]

\* GameEngine.generatePowerUp
generatePowerUp(e, in) ==
    LET k == Accepted(in.samples, e.canvas, e.ship.position, 100)
        at == At(in.samples[k], e.canvas)
    IN IF k = 0 THEN Rejecting(e, 100)
       ELSE [Spawned(e, "powerUp", at) EXCEPT !.powerUps = Append(@,
                [position |-> at, size |-> 15, type |-> in.puType,
                 active |-> TRUE, duration |-> 10000,
                 canvasWidth |-> e.canvas.width, canvasHeight |-> e.canvas.height])]

newAsteroid(position, canvas) ==
    [position |-> position, size |-> 30, health |-> 2,
     canvasWidth |-> canvas.width, canvasHeight |-> canvas.height,
     hits1 |-> 0, hits2 |-> 0]

\* GameEngine.generateAsteroids(count)
generateAsteroids(e, count, in) ==
    LET k == Accepted(in.samples, e.canvas, e.ship.position, 100)
        at == At(in.samples[k], e.canvas)
    IN IF k = 0 THEN Rejecting(e, 100)
       ELSE [Spawned(e, "asteroid", at) EXCEPT !.asteroids =
                @ \o [n \in 1..count |-> newAsteroid(at, e.canvas)]]

newEnemy(position, rotation, canvas) ==
    [position |-> position, size |-> 18, rotation |-> rotation, health |-> 2,
     weapon |-> createEnemyWeapon, detectionRadius |-> 300, fireRadius |-> 250,
     active |-> TRUE,
     canvasWidth |-> canvas.width, canvasHeight |-> canvas.height,
     hits1 |-> 0, hits2 |-> 0]

\* GameEngine.generateEnemies(count)
generateEnemies(e, count, in) ==
    LET k == Accepted(in.samples, e.canvas, e.ship.position, 200)
        at == At(in.samples[k], e.canvas)
    IN IF k = 0 THEN Rejecting(e, 200)
       ELSE [Spawned(e, "enemy", at) EXCEPT !.enemies =
                @ \o [n \in 1..count |-> newEnemy(at, in.enRot, e.canvas)]]

----------------------------------------------------------------------------
(* Power-up effects *)

\* collectMultishot with the bonus taken from the level before the pickup
collectMultishot_OldLevel(e) ==
    IF e.ship.multiShotLevel < 5
    THEN [e EXCEPT !.ship.multiShotLevel = @ + 1,
                   !.score = @ + 50 * e.ship.multiShotLevel]
    ELSE e

\* collectMultishot without the cap: the level grows with every pickup
collectMultishot_Uncapped(e) ==
    [e EXCEPT !.ship.multiShotLevel = @ + 1,
              !.score = @ + 50 * (e.ship.multiShotLevel + 1)]

\* collectPowerUp, case PowerUpType.MULTISHOT
collectMultishot(e) ==
    IF e.ship.multiShotLevel < 5
    THEN [e EXCEPT !.ship.multiShotLevel = @ + 1,
                   !.score = @ + 50 * (e.ship.multiShotLevel + 1)]
    ELSE e

\* collectPowerUp with SHIELD adding its duration to the time left
collectPowerUp_ShieldAdds(e, i, t) ==
    LET powerUp == e.powerUps[i]
        seen == [e EXCEPT !.fx.collected = powerUp.type,
                          !.fx.levelBefore = e.ship.multiShotLevel]
        done ==
          CASE powerUp.type = "weapon" ->
                 [seen EXCEPT !.ship.weapon = createAdvancedWeapon,
                              !.timeouts = Append(@, [due |-> t + powerUp.duration,
                                                      kind |-> "weapon", value |-> 0]),
                              !.lastWeaponPickup = t]
            [] powerUp.type = "shield" ->
                 [seen EXCEPT !.ship.hasShield = TRUE,
                              !.ship.shieldTime = @ + powerUp.duration]
            [] powerUp.type = "life" ->
                 [seen EXCEPT !.ship.lives = @ + 1]
            [] powerUp.type = "speed" ->
                 [seen EXCEPT !.ship.maxThrust = (@ * 3) \div 2,
                              !.timeouts = Append(@, [due |-> t + powerUp.duration,
                                                      kind |-> "speed",
                                                      value |-> e.ship.maxThrust])]
            [] powerUp.type = "multishot" -> collectMultishot(seen)
            [] OTHER -> seen
    IN [done EXCEPT !.powerUps[i].active = FALSE]

\* GameEngine.collectPowerUp(powerUp) for the power-up at index i, at clock t.
\* A setTimeout callback is kept in e.timeouts with the clock value it is due at.
collectPowerUp(e, i, t) ==
    LET powerUp == e.powerUps[i]
        seen == [e EXCEPT !.fx.collected = powerUp.type,
                          !.fx.levelBefore = e.ship.multiShotLevel]
        done ==
          CASE powerUp.type = "weapon" ->
                 [seen EXCEPT !.ship.weapon = createAdvancedWeapon,
                              !.timeouts = Append(@, [due |-> t + powerUp.duration,
                                                      kind |-> "weapon", value |-> 0]),
                              !.lastWeaponPickup = t]
            [] powerUp.type = "shield" ->
                 [seen EXCEPT !.ship.hasShield = TRUE,
                              !.ship.shieldTime = powerUp.duration]
            [] powerUp.type = "life" ->
                 [seen EXCEPT !.ship.lives = @ + 1]
            [] powerUp.type = "speed" ->
                 [seen EXCEPT !.ship.maxThrust = (@ * 3) \div 2,
                              !.timeouts = Append(@, [due |-> t + powerUp.duration,
                                                      kind |-> "speed",
                                                      value |-> e.ship.maxThrust])]
            [] powerUp.type = "multishot" -> collectMultishot(seen)
            [] OTHER -> seen
    IN [done EXCEPT !.powerUps[i].active = FALSE]

----------------------------------------------------------------------------
(* Collisions *)

\* handleShipCollision that forgets to stop the ship
handleShipCollision_KeepsVelocity(e, body) ==
    [e EXCEPT !.ship.lives = @ - 1,
              !.ship.isInvulnerable = TRUE,
              !.ship.invulnerabilityTime = 3000,
              !.ship.position = [x |-> e.canvas.width \div 2, y |-> e.canvas.height \div 2],
              !.ship.thrust = 0,
              !.sinceHit = 0,
              !.fx.shipHits = @ + 1,
              !.fx.bodyHits = @ + (IF body THEN 1 ELSE 0),
              !.fx.hitAt = Append(@, e.ship.position)]

\* GameEngine.handleShipCollision; body tells a body contact from a bullet hit
handleShipCollision(e, body) ==
    [e EXCEPT !.ship.lives = @ - 1,
              !.ship.isInvulnerable = TRUE,
              !.ship.invulnerabilityTime = 3000,
              !.ship.position = [x |-> e.canvas.width \div 2, y |-> e.canvas.height \div 2],
              !.ship.velocity = [x |-> 0, y |-> 0],
              !.ship.thrust = 0,
              !.sinceHit = 0,
              !.fx.shipHits = @ + 1,
              !.fx.bodyHits = @ + (IF body THEN 1 ELSE 0),
              !.fx.hitAt = Append(@, e.ship.position)]

\* shipBodyCollisions without the test of hasShield
shipBodyCollisions_IgnoresShield(e) ==
    IF ~e.ship.isInvulnerable
    THEN LET e1 == IF FirstIndex(e.asteroids, LAMBDA a : Collides(a, e.ship)) # 0
                   THEN handleShipCollision(e, TRUE) ELSE e
         IN IF FirstIndex(e1.enemies, LAMBDA n : Collides(n, e1.ship)) # 0
            THEN handleShipCollision(e1, TRUE) ELSE e1
    ELSE e

\* checkCollisions, ship-asteroid and ship-enemy
shipBodyCollisions(e) ==
    IF ~e.ship.isInvulnerable /\ ~e.ship.hasShield
    THEN LET e1 == IF FirstIndex(e.asteroids, LAMBDA a : Collides(a, e.ship)) # 0
                   THEN handleShipCollision(e, TRUE) ELSE e
         IN IF FirstIndex(e1.enemies, LAMBDA n : Collides(n, e1.ship)) # 0
            THEN handleShipCollision(e1, TRUE) ELSE e1
    ELSE e

\* the damage a bullet does to a target: its hit counters and its health
damaged(target, bullet) ==
    [target EXCEPT !.health = @ - bullet.damage,
                   !.hits1 = @ + (IF bullet.damage = 1 THEN 1 ELSE 0),
                   !.hits2 = @ + (IF bullet.damage = 2 THEN 1 ELSE 0)]

\* hitAsteroid that replenishes only when fewer than 2 asteroids remain
hitAsteroid_ReplenishLate(e, i, j, in) ==
    LET e1 == [e EXCEPT !.bullets[i].active = FALSE,
                        !.fx.playerHits = @ + 1,
                        !.asteroids[j] = damaged(@, e.bullets[i])]
        a  == e1.asteroids[j]
    IN IF a.health <= 0
       THEN LET e2 == [e1 EXCEPT !.asteroids = RemoveAt(@, j),
                                 !.score = @ + 100,
                                 !.fx.asteroidKills = @ + 1,
                                 !.fx.killHits = Append(@, <<"asteroid", a.hits1, a.hits2>>)]
                e3 == IF in.dropRoll THEN generatePowerUp(e2, in) ELSE e2
            IN IF Len(e3.asteroids) < 2 THEN generateAsteroids(e3, 2, in) ELSE e3
       ELSE e1

\* hitAsteroid that replenishes already when 3 asteroids remain
hitAsteroid_ReplenishAtThree(e, i, j, in) ==
    LET e1 == [e EXCEPT !.bullets[i].active = FALSE,
                        !.fx.playerHits = @ + 1,
                        !.asteroids[j] = damaged(@, e.bullets[i])]
        a  == e1.asteroids[j]
    IN IF a.health <= 0
       THEN LET e2 == [e1 EXCEPT !.asteroids = RemoveAt(@, j),
                                 !.score = @ + 100,
                                 !.fx.asteroidKills = @ + 1,
                                 !.fx.killHits = Append(@, <<"asteroid", a.hits1, a.hits2>>)]
                e3 == IF in.dropRoll THEN generatePowerUp(e2, in) ELSE e2
            IN IF Len(e3.asteroids) <= 3 THEN generateAsteroids(e3, 2, in) ELSE e3
       ELSE e1

\* hitAsteroid that leaves the bullet active
hitAsteroid_KeepsBullet(e, i, j, in) ==
    LET e1 == [e EXCEPT !.fx.playerHits = @ + 1,
                        !.asteroids[j] = damaged(@, e.bullets[i])]
        a  == e1.asteroids[j]
    IN IF a.health <= 0
       THEN LET e2 == [e1 EXCEPT !.asteroids = RemoveAt(@, j),
                                 !.score = @ + 100,
                                 !.fx.asteroidKills = @ + 1,
                                 !.fx.killHits = Append(@, <<"asteroid", a.hits1, a.hits2>>)]
                e3 == IF in.dropRoll THEN generatePowerUp(e2, in) ELSE e2
            IN IF Len(e3.asteroids) < 3 THEN generateAsteroids(e3, 2, in) ELSE e3
       ELSE e1

\* hitAsteroid with the removal test off by one: health < 0 in place of <= 0
hitAsteroid_Overkill(e, i, j, in) ==
    LET e1 == [e EXCEPT !.bullets[i].active = FALSE,
                        !.fx.playerHits = @ + 1,
                        !.asteroids[j] = damaged(@, e.bullets[i])]
        a  == e1.asteroids[j]
    IN IF a.health < 0
       THEN LET e2 == [e1 EXCEPT !.asteroids = RemoveAt(@, j),
                                 !.score = @ + 100,
                                 !.fx.asteroidKills = @ + 1,
                                 !.fx.killHits = Append(@, <<"asteroid", a.hits1, a.hits2>>)]
                e3 == IF in.dropRoll THEN generatePowerUp(e2, in) ELSE e2
            IN IF Len(e3.asteroids) < 3 THEN generateAsteroids(e3, 2, in) ELSE e3
       ELSE e1

\* checkCollisions, bullet i hits asteroid j
hitAsteroid(e, i, j, in) ==
    LET e1 == [e EXCEPT !.bullets[i].active = FALSE,
                        !.fx.playerHits = @ + 1,
                        !.asteroids[j] = damaged(@, e.bullets[i])]
        a  == e1.asteroids[j]
    IN IF a.health <= 0
       THEN LET e2 == [e1 EXCEPT !.asteroids = RemoveAt(@, j),
                                 !.score = @ + 100,
                                 !.fx.asteroidKills = @ + 1,
                                 !.fx.killHits = Append(@, <<"asteroid", a.hits1, a.hits2>>)]
                e3 == IF in.dropRoll THEN generatePowerUp(e2, in) ELSE e2
            IN IF Len(e3.asteroids) < 3 THEN generateAsteroids(e3, 2, in) ELSE e3
       ELSE e1

\* checkCollisions, the bullet-asteroid loop from bullet i on
RECURSIVE bulletAsteroidCollisions(_, _, _)
bulletAsteroidCollisions(e, i, in) ==
    IF i > Len(e.bullets) THEN e
    ELSE LET bullet == e.bullets[i]
             j == FirstIndex(e.asteroids, LAMBDA a : Collides(a, bullet))
         IN IF ~bullet.active \/ bullet.fromEnemy \/ j = 0
            THEN bulletAsteroidCollisions(e, i + 1, in)
            ELSE bulletAsteroidCollisions(hitAsteroid(e, i, j, in), i + 1, in)

\* hitEnemy with the level-up test strict: score > level * 1000
hitEnemy_StrictThreshold(e, i, j, in) ==
    LET e1 == [e EXCEPT !.bullets[i].active = FALSE,
                        !.fx.playerHits = @ + 1,
                        !.enemies[j] = damaged(@, e.bullets[i])]
        n  == e1.enemies[j]
    IN IF n.health <= 0
       THEN LET e2 == [e1 EXCEPT !.enemies = RemoveAt(@, j),
                                 !.score = @ + 250,
                                 !.fx.enemyKills = @ + 1,
                                 !.fx.killHits = Append(@, <<"enemy", n.hits1, n.hits2>>)]
                e3 == IF in.dropRoll THEN generatePowerUp(e2, in) ELSE e2
                e4 == generateEnemies([e3 EXCEPT !.level = @ + 1], e3.level + 1, in)
            IN IF e3.score > e3.level * 1000
               THEN [e4 EXCEPT !.fx.levelSpawned = @ + Len(e4.enemies) - Len(e3.enemies)]
               ELSE e3
       ELSE e1

\* checkCollisions, bullet i hits enemy j
hitEnemy(e, i, j, in) ==
    LET e1 == [e EXCEPT !.bullets[i].active = FALSE,
                        !.fx.playerHits = @ + 1,
                        !.enemies[j] = damaged(@, e.bullets[i])]
        n  == e1.enemies[j]
    IN IF n.health <= 0
       THEN LET e2 == [e1 EXCEPT !.enemies = RemoveAt(@, j),
                                 !.score = @ + 250,
                                 !.fx.enemyKills = @ + 1,
                                 !.fx.killHits = Append(@, <<"enemy", n.hits1, n.hits2>>)]
                e3 == IF in.dropRoll THEN generatePowerUp(e2, in) ELSE e2
                e4 == generateEnemies([e3 EXCEPT !.level = @ + 1], e3.level + 1, in)
            IN IF e3.score >= e3.level * 1000
               THEN [e4 EXCEPT !.fx.levelSpawned = @ + Len(e4.enemies) - Len(e3.enemies)]
               ELSE e3
       ELSE e1

\* checkCollisions, the bullet-enemy loop from bullet i on
RECURSIVE bulletEnemyCollisions(_, _, _)
bulletEnemyCollisions(e, i, in) ==
    IF i > Len(e.bullets) THEN e
    ELSE LET bullet == e.bullets[i]
             j == FirstIndex(e.enemies, LAMBDA n : Collides(n, bullet))
         IN IF ~bullet.active \/ bullet.fromEnemy \/ j = 0
            THEN bulletEnemyCollisions(e, i + 1, in)
            ELSE bulletEnemyCollisions(hitEnemy(e, i, j, in), i + 1, in)

\* enemyBulletCollisions without the test of fromEnemy
enemyBulletCollisions_AnyOrigin(e) ==
    LET i == FirstIndex(e.bullets, LAMBDA b : b.active /\ Collides(e.ship, b))
    IN IF ~e.ship.isInvulnerable /\ i # 0
       THEN LET e1 == [e EXCEPT !.bullets[i].active = FALSE,
                                !.fx.bulletHits = @ + 1]
            IN IF e1.ship.hasShield
               THEN LET t == e1.ship.shieldTime - 1000
                    IN [e1 EXCEPT !.ship.shieldTime = t,
                                  !.ship.hasShield = ~(t <= 0),
                                  !.fx.absorbed = @ + 1]
               ELSE handleShipCollision(e1, FALSE)
       ELSE e

\* enemyBulletCollisions without the test of isInvulnerable
enemyBulletCollisions_Unguarded(e) ==
    LET i == FirstIndex(e.bullets,
                        LAMBDA b : b.active /\ b.fromEnemy /\ Collides(e.ship, b))
    IN IF i # 0
       THEN LET e1 == [e EXCEPT !.bullets[i].active = FALSE,
                                !.fx.bulletHits = @ + 1]
            IN IF e1.ship.hasShield
               THEN LET t == e1.ship.shieldTime - 1000
                    IN [e1 EXCEPT !.ship.shieldTime = t,
                                  !.ship.hasShield = ~(t <= 0),
                                  !.fx.absorbed = @ + 1]
               ELSE handleShipCollision(e1, FALSE)
       ELSE e

\* checkCollisions, enemy bullet-ship
enemyBulletCollisions(e) ==
    LET i == FirstIndex(e.bullets,
                        LAMBDA b : b.active /\ b.fromEnemy /\ Collides(e.ship, b))
    IN IF ~e.ship.isInvulnerable /\ i # 0
       THEN LET e1 == [e EXCEPT !.bullets[i].active = FALSE,
                                !.fx.bulletHits = @ + 1]
            IN IF e1.ship.hasShield
               THEN LET t == e1.ship.shieldTime - 1000
                    IN [e1 EXCEPT !.ship.shieldTime = t,
                                  !.ship.hasShield = ~(t <= 0),
                                  !.fx.absorbed = @ + 1]
               ELSE handleShipCollision(e1, FALSE)
       ELSE e

\* checkCollisions, ship-power-up
powerUpCollisions(e, t) ==
    LET i == FirstIndex(e.powerUps, LAMBDA p : p.active /\ Collides(p, e.ship))
    IN IF i # 0 THEN collectPowerUp(e, i, t) ELSE e

\* GameEngine.checkCollisions at clock t
checkCollisions(e, t, in) ==
    LET e0 == [e EXCEPT !.fx.shipBefore = e.ship,
                        !.fx.incoming =
                            SelectSeq(e.bullets, LAMBDA b : b.active /\ b.fromEnemy)]
    IN Stage(powerUpCollisions(
               enemyBulletCollisions(
                 bulletEnemyCollisions(
                   bulletAsteroidCollisions(shipBodyCollisions(e0), 1, in), 1, in)), t),
             "checkCollisions")


----------------------------------------------------------------------------
(* The stages of a frame *)

\* GameEngine.processInput(deltaTime) at clock t; 3 rad/s is 172 degrees/s
processInput(e, dt, t) ==
    LET left  == IF e.keys["ArrowLeft"] THEN (172 * dt) \div 1000 ELSE 0
        right == IF e.keys["ArrowRight"] THEN (172 * dt) \div 1000 ELSE 0
        e1 == [e EXCEPT !.ship.rotation = @ - left + right,
                        !.ship.isThrusting = e.keys["ArrowUp"]]
    IN Stage(IF e1.keys[" "] THEN fireWeapon(e1, t) ELSE e1, "processInput")

\* bulletUpdate with the expiry test strict: lifeTime < 0
bulletUpdate_LateExpiry(b, dt, to) ==
    LET life == b.lifeTime - dt
    IN [b EXCEPT !.position = to, !.lifeTime = life, !.age = @ + dt,
                 !.active = b.active /\ ~(life < 0)]

\* bullet.update(deltaTime): the bullet is moved to `to`
bulletUpdate(b, dt, to) ==
    LET life == b.lifeTime - dt
    IN [b EXCEPT !.position = to, !.lifeTime = life, !.age = @ + dt,
                 !.active = b.active /\ ~(life <= 0)]

\* the fire check of update for the enemy at index j
RECURSIVE enemyFireChecks(_, _, _, _)
enemyFireChecks(e, j, t, in) ==
    IF j > Len(e.enemies) THEN e
    ELSE LET enemy == e.enemies[j]
             e1 == IF Closer(e.ship.position, enemy.position, enemy.fireRadius)
                      /\ in.fireIdx = j
                   THEN enemyFireWeapon(e, j, t)
                   ELSE e
         IN enemyFireChecks(e1, j + 1, t, in)

\* GameEngine.update(deltaTime) at clock t
update(e, dt, t, in) ==
    LET enemyMoved == [j \in 1..Len(e.enemies) |->
                          IF j = in.enIdx THEN in.enTo ELSE e.enemies[j].position]
        e1 == [e EXCEPT
                 !.ship = ShipUpdate(@, dt),
                 !.asteroids = [j \in 1..Len(@) |->
                     [@[j] EXCEPT !.position =
                         WrapAsteroid(IF j = in.astIdx THEN in.astTo ELSE @,
                                      e.asteroids[j].size,
                                      e.asteroids[j].canvasWidth,
                                      e.asteroids[j].canvasHeight)]],
                 !.bullets = [i \in 1..Len(@) |->
                     bulletUpdate(@[i], dt, IF @[i].fromEnemy THEN in.ebulTo ELSE in.bulTo)],
                 !.powerUps = [i \in 1..Len(@) |->
                     [@[i] EXCEPT !.position =
                         WrapPowerUp(IF i = in.puIdx THEN in.puTo ELSE @,
                                     e.powerUps[i].size,
                                     e.powerUps[i].canvasWidth,
                                     e.powerUps[i].canvasHeight)]],
                 !.enemies = [j \in 1..Len(@) |->
                     [@[j] EXCEPT !.position =
                                     WrapCenter(enemyMoved[j], e.enemies[j].canvasWidth,
                                                e.enemies[j].canvasHeight),
                                  !.rotation = IF j = in.enIdx THEN in.enRot ELSE @]],
                 !.sinceHit = IF @ < 0 THEN @ ELSE @ + dt,
                 !.fx.moved = [ship |-> ShipMoved(e.ship, dt), enemies |-> enemyMoved]]
        e2 == [e1 EXCEPT !.fx.flown =
                  SelectSeq(e1.bullets, LAMBDA b : b.active /\ ~b.fromEnemy),
                         !.fx.expired = SelectSeq(e1.bullets, LAMBDA b : ~b.active)]
    IN Stage(enemyFireChecks(e2, 1, t, in), "update")

\* cleanupInactiveObjects without the filter of the bullets
cleanupInactiveObjects_KeepsBullets(e) ==
    Stage([e EXCEPT !.powerUps = SelectSeq(@, LAMBDA p : p.active),
                    !.enemies  = SelectSeq(@, LAMBDA n : n.active)],
          "cleanupInactiveObjects")

\* GameEngine.cleanupInactiveObjects
cleanupInactiveObjects(e) ==
    Stage([e EXCEPT !.bullets  = SelectSeq(@, LAMBDA b : b.active),
                    !.powerUps = SelectSeq(@, LAMBDA p : p.active),
                    !.enemies  = SelectSeq(@, LAMBDA n : n.active)],
          "cleanupInactiveObjects")

\* GameEngine.updatePowerUpSpawn(deltaTime)
updatePowerUpSpawn(e, dt, in) ==
    LET time == e.powerUpSpawnTime + dt
    IN Stage(IF time >= e.powerUpSpawnInterval
             THEN LET e1 == [e EXCEPT !.powerUpSpawnTime = 0]
                  IN IF Len(e1.powerUps) < 3 THEN generatePowerUp(e1, in) ELSE e1
             ELSE [e EXCEPT !.powerUpSpawnTime = time],
             "updatePowerUpSpawn")

\* GameEngine.updateEnemySpawn(deltaTime)
updateEnemySpawn(e, dt, in) ==
    LET time == e.enemySpawnTime + dt
        lowered == e.enemySpawnInterval - e.level * 500
        adjustedInterval == IF lowered > 5000 THEN lowered ELSE 5000
    IN Stage(IF time >= adjustedInterval
             THEN LET e1 == [e EXCEPT !.enemySpawnTime = 0]
                      maxEnemies == 5 + e1.level
                  IN IF Len(e1.enemies) < maxEnemies THEN generateEnemies(e1, 1, in)
                     ELSE e1
             ELSE [e EXCEPT !.enemySpawnTime = time],
             "updateEnemySpawn")

\* GameEngine.render: it draws, and changes no field of the engine
render(e) == Stage(e, "render")

\* gameLoop with the cleanup ahead of the collisions
gameLoop_CleanupFirst(e, timestamp, in) ==
    LET deltaTime == timestamp - e.lastTime
        e0 == [ResetFx(e, "gameLoop") EXCEPT !.lastTime = timestamp,
                                             !.fx.deltaTime = deltaTime]
        e1 == processInput(e0, deltaTime, timestamp)
        e2 == update(e1, deltaTime, timestamp, in)
        e3 == cleanupInactiveObjects(e2)
        e4 == checkCollisions(e3, timestamp, in)
        e5 == updatePowerUpSpawn(e4, deltaTime, in)
    IN render(updateEnemySpawn(e5, deltaTime, in))

\* GameEngine.gameLoop(timestamp): one frame step
gameLoop(e, timestamp, in) ==
    LET deltaTime == timestamp - e.lastTime
        e0 == [ResetFx(e, "gameLoop") EXCEPT !.lastTime = timestamp,
                                             !.fx.deltaTime = deltaTime]
        e1 == processInput(e0, deltaTime, timestamp)
        e2 == update(e1, deltaTime, timestamp, in)
        e3 == checkCollisions(e2, timestamp, in)
        e4 == cleanupInactiveObjects(e3)
        e5 == updatePowerUpSpawn(e4, deltaTime, in)
    IN render(updateEnemySpawn(e5, deltaTime, in))

----------------------------------------------------------------------------
(* The engine's public surface and its handlers *)

Keys == {" ", "ArrowUp", "ArrowLeft", "ArrowRight"}

\* new GameEngine(canvas): the fields and the constructor
construct(in) ==
    LET e0 == [ship |-> createShip,
               asteroids |-> <<>>, powerUps |-> <<>>, bullets |-> <<>>, enemies |-> <<>>,
               keys |-> [k \in Keys |-> FALSE],
               score |-> 0,
               powerUpSpawnTime |-> 0, powerUpSpawnInterval |-> 10000,
               enemySpawnTime |-> 0, enemySpawnInterval |-> 15000,
               level |-> 1, lastTime |-> 0,
               canvas |-> Canvas,
               timeouts |-> <<>>, lastWeaponPickup |-> -1,
               lastVolley |-> -1, sinceHit |-> -1,
               replaced |-> <<>>,
               fx |-> NoFx]
    IN generateEnemies(generateAsteroids(e0, 5, in), 1, in)

\* GameEngine.isGameOver
isGameOver(e) == e.ship.lives <= 0

\* GameEngine.getScore
getScore(e) == e.score

\* GameEngine.handleKeyDown at clock t
handleKeyDown(e, key, t) ==
    LET e1 == [ResetFx(e, "keydown") EXCEPT !.keys[key] = TRUE]
    IN IF key = " " THEN fireWeapon(e1, t) ELSE e1

\* GameEngine.handleKeyUp
handleKeyUp(e, key) == [ResetFx(e, "keyup") EXCEPT !.keys[key] = FALSE]

\* GameEngine.resize(width, height)
resize(e, width, height) ==
    [ResetFx(e, "resize") EXCEPT
        !.canvas = [width |-> width, height |-> height],
        !.ship.canvasWidth = width,
        !.ship.canvasHeight = height,
        !.asteroids = [j \in 1..Len(@) |->
                          [@[j] EXCEPT !.canvasWidth = width, !.canvasHeight = height]],
        !.enemies = [j \in 1..Len(@) |->
                        [@[j] EXCEPT !.canvasWidth = width, !.canvasHeight = height]]]

\* the callback collectPowerUp gave to setTimeout, k-th of e.timeouts
runTimeout(e, k) ==
    LET cb == e.timeouts[k]
        e1 == [ResetFx(e, cb.kind) EXCEPT !.timeouts = RemoveAt(@, k),
                                          !.fx.weaponBefore = e.ship.weapon.kind]
    IN IF cb.kind = "weapon"
       THEN [e1 EXCEPT !.ship.weapon = createBasicWeapon]
       ELSE [e1 EXCEPT !.ship.maxThrust = cb.value]

\* the timeout the browser runs next: the earliest due, then the first set
NextTimeout(e) ==
    FirstIndex(e.timeouts, LAMBDA c : \A d \in 1..Len(e.timeouts) : c.due <= e.timeouts[d].due)

----------------------------------------------------------------------------
(* Actions *)

\* no frame callback has been lost in a spawn sampling that cannot end
Running == ~g.fx.endless

\* start(): lastTime = performance.now(); requestAnimationFrame(gameLoop)
Start ==
    /\ Running
    /\ raf < MaxStarts
    /\ g' = [ResetFx(g, "start") EXCEPT !.lastTime = now]
    /\ raf' = raf + 1
    /\ UNCHANGED <<now, frameDue, frameDone, listening, disposed>>

\* start() once more on the engine that is running: requestAnimationFrame
\* registers gameLoop a second time
StartAgain ==
    /\ Running
    /\ raf >= 1
    /\ raf < RetryMaxStarts
    /\ g' = [ResetFx(g, "start") EXCEPT !.lastTime = now]
    /\ raf' = raf + 1
    /\ UNCHANGED <<now, frameDue, frameDone, listening, disposed>>

\* start() is called lead ms into a display refresh whose frame time is
\* `now`: performance.now() reads now + lead, and the callback registered is
\* run in that refresh, with the frame time for its timestamp
StartLate(lead) ==
    /\ Running
    /\ raf < MaxStarts
    /\ g' = [ResetFx(g, "start") EXCEPT !.lastTime = now + lead]
    /\ raf' = raf + 1
    /\ frameDue' = raf + 1
    /\ UNCHANGED <<now, frameDone, listening, disposed>>

\* handleRetry of the game-over overlay: new GameEngine(canvas) replaces the
\* engine in the screen's ref and is started; the engine replaced is neither
\* stopped nor disposed.  raf, frameDue and frameDone follow the engine in
\* the ref; a replaced engine's frame of a refresh is due while its lastTime
\* is older than the frame time.
Retry(in) ==
    /\ Running
    /\ raf >= 1
    /\ frameDone = frameDue
    /\ isGameOver(g)
    /\ Len(g.replaced) < MaxRetries
    /\ g' = [ResetFx(construct(in), "start") EXCEPT
                !.lastTime = now,
                !.replaced = Append(g.replaced, [g EXCEPT !.replaced = <<>>])]
    /\ UNCHANGED <<now, raf, frameDue, frameDone, listening, disposed>>

\* the browser runs the pending frame callback of a replaced engine
ReplacedGameLoop(in) ==
    /\ Running
    /\ \E r \in 1..Len(g.replaced) :
          /\ g.replaced[r].lastTime < now
          /\ LET e == gameLoop(g.replaced[r], now, in)
             IN /\ ~e.fx.stuck
                /\ g' = [g EXCEPT !.replaced[r] = e]
    /\ UNCHANGED <<now, raf, frameDue, frameDone, listening, disposed>>

\* the revert of a replaced engine reaching the ship of the engine in the ref
ReplacedTimeout_OnCurrent ==
    /\ Running
    /\ \E r \in 1..Len(g.replaced) :
          /\ NextTimeout(g.replaced[r]) # 0
          /\ g.replaced[r].timeouts[NextTimeout(g.replaced[r])].due <= now
          /\ LET k  == NextTimeout(g.replaced[r])
                 cb == g.replaced[r].timeouts[k]
             IN g' = [g EXCEPT
                        !.replaced[r].timeouts = RemoveAt(@, k),
                        !.ship.weapon = IF cb.kind = "weapon"
                                        THEN createBasicWeapon ELSE @,
                        !.ship.maxThrust = IF cb.kind = "speed"
                                           THEN cb.value ELSE @]
    /\ UNCHANGED <<now, raf, frameDue, frameDone, listening, disposed>>

\* the browser runs a setTimeout callback of a replaced engine that is due
ReplacedTimeout ==
    /\ Running
    /\ \E r \in 1..Len(g.replaced) :
          /\ NextTimeout(g.replaced[r]) # 0
          /\ g.replaced[r].timeouts[NextTimeout(g.replaced[r])].due <= now
          /\ g' = [g EXCEPT !.replaced[r] = runTimeout(@, NextTimeout(@))]
    /\ UNCHANGED <<now, raf, frameDue, frameDone, listening, disposed>>

\* the browser runs a pending frame callback; each runs once per refresh
GameLoop(in) ==
    /\ Running
    /\ frameDone < frameDue
    /\ LET e == gameLoop(g, now, in)
       IN /\ ~e.fx.stuck
          /\ g' = e
    /\ frameDone' = frameDone + 1
    /\ UNCHANGED <<now, raf, frameDue, listening, disposed>>

\* the browser runs a pending frame callback whose spawn sampling cannot end:
\* the callback does not complete and requests no further frame; the model
\* follows the engine no further
SpawnForever(in) ==
    /\ Running
    /\ frameDone < frameDue
    /\ gameLoop(g, now, in).fx.endless
    /\ g' = [ResetFx(g, "gameLoop") EXCEPT !.fx.stuck = TRUE, !.fx.endless = TRUE]
    /\ UNCHANGED <<now, raf, frameDue, frameDone, listening, disposed>>

\* the window is resized and the screen passes the new size on
Resize(size) ==
    /\ Running
    /\ g.canvas # size
    /\ g' = resize(g, size.width, size.height)
    /\ UNCHANGED <<now, raf, frameDue, frameDone, listening, disposed>>

\* a keydown event reaches the registered listener
KeyDown(key) ==
    /\ Running
    /\ listening
    /\ g' = handleKeyDown(g, key, now)
    /\ UNCHANGED <<now, raf, frameDue, frameDone, listening, disposed>>

\* a keyup event reaches the registered listener
KeyUp(key) ==
    /\ Running
    /\ listening
    /\ g.keys[key]
    /\ g' = handleKeyUp(g, key)
    /\ UNCHANGED <<now, raf, frameDue, frameDone, listening, disposed>>

\* the browser runs a setTimeout callback that is due
Timeout ==
    /\ Running
    /\ NextTimeout(g) # 0
    /\ g.timeouts[NextTimeout(g)].due <= now
    /\ g' = runTimeout(g, NextTimeout(g))
    /\ UNCHANGED <<now, raf, frameDue, frameDone, listening, disposed>>

\* dispose(): removeEventListener for keydown and keyup; the screen calls it
\* once, when it unmounts, after it has started the engine
Dispose ==
    /\ Running
    /\ raf > 0
    /\ ~disposed
    /\ listening' = FALSE
    /\ disposed' = TRUE
    /\ g' = ResetFx(g, "dispose")
    /\ UNCHANGED <<now, raf, frameDue, frameDone>>

\* d ms pass up to the next display refresh, once the frame callbacks of this
\* refresh have run; a timeout runs when it is due.  The screen calls start()
\* right after the constructor, before time passes.
Tick(d, limit) ==
    /\ raf > 0
    /\ frameDone = frameDue
    /\ now + d <= limit
    /\ \A k \in 1..Len(g.timeouts) : now + d <= g.timeouts[k].due
    /\ \A r \in 1..Len(g.replaced) :
          /\ g.replaced[r].lastTime = now
          /\ \A k \in 1..Len(g.replaced[r].timeouts) :
                now + d <= g.replaced[r].timeouts[k].due
    /\ now' = now + d
    /\ frameDue' = raf
    /\ frameDone' = 0
    /\ UNCHANGED <<g, raf, listening, disposed>>

----------------------------------------------------------------------------
(* Initial state: a freshly constructed engine, not started yet *)

\* what the constructor's random draws give
InitInputs ==
    [samples : {<<DrawCenter, DrawFar>>}, enRot : {180}]

Init ==
    /\ \E in \in InitInputs : g = construct(in)
    /\ now = 0
    /\ raf = 0
    /\ frameDue = 0
    /\ frameDone = 0
    /\ listening = TRUE
    /\ disposed = FALSE

\* the inputs of a frame in which nothing drifts and no random roll succeeds
Still ==
    [astIdx |-> 0, astTo |-> Far, enIdx |-> 0, enTo |-> Far, enRot |-> 180,
     puIdx |-> 0, puTo |-> Far, bulTo |-> Away, ebulTo |-> Away,
     fireIdx |-> 0, dropRoll |-> FALSE, puType |-> "shield",
     samples |-> <<DrawCenter, DrawFar>>]

----------------------------------------------------------------------------
(* Spec: the ship among drifting asteroids, enemies, enemy bullets and     *)
(* LIFE power-ups; nobody fires the ship's weapon.  A refresh every 5 s.   *)

Inputs ==
    {[Still EXCEPT !.astIdx = 1, !.astTo = a, !.enIdx = 1, !.enTo = n,
                   !.puIdx = p, !.puTo = Center, !.puType = "life",
                   !.fireIdx = f, !.ebulTo = Center] :
       a \in {Center, Far}, n \in {Center, Far}, p \in {0, 1}, f \in {0, 1}}

Next ==
    \/ Start
    \/ \E in \in Inputs : GameLoop(in)
    \/ Tick(5000, MaxNow)

Spec == Init /\ [][Next]_vars

----------------------------------------------------------------------------
(* SpecReverts: the ship collects WEAPON and SPEED power-ups that drift    *)
(* onto it; the timed reverts run; the screen may dispose the engine.      *)
(* Nothing else drifts.  A refresh every 5 s.                              *)

RevertsMaxNow == 40000

RevertInputs ==
    {[Still EXCEPT !.puIdx = p, !.puTo = Center, !.puType = ty] :
       p \in {0, 1}, ty \in {"weapon", "speed"}}

NextReverts ==
    \/ Start
    \/ \E in \in RevertInputs : GameLoop(in)
    \/ Timeout
    \/ Dispose
    \/ Tick(5000, RevertsMaxNow)

SpecReverts == Init /\ [][NextReverts]_vars

----------------------------------------------------------------------------
(* SpecMultishot: the ship collects MULTISHOT and SHIELD power-ups that    *)
(* drift onto it.  Nothing else drifts.  A refresh every 5 s.              *)

MultishotMaxNow == 65000

MultishotInputs ==
    {[Still EXCEPT !.puIdx = p, !.puTo = Center, !.puType = ty] :
       p \in {0, 1}, ty \in {"multishot", "shield"}}

NextMultishot ==
    \/ Start
    \/ \E in \in MultishotInputs : GameLoop(in)
    \/ Tick(5000, MultishotMaxNow)

SpecMultishot == Init /\ [][NextMultishot]_vars

----------------------------------------------------------------------------
(* SpecFire: the player presses and holds the fire key; bullets fly to the *)
(* asteroids at Far, a destroyed asteroid may drop a WEAPON power-up that  *)
(* drifts onto the ship.  A refresh every 100 ms, for one second.          *)

FireMaxNow == 1000

FireInputs ==
    {[Still EXCEPT !.bulTo = Far, !.puIdx = 1, !.puTo = Center,
                   !.puType = "weapon", !.dropRoll = d] : d \in BOOLEAN}

NextFire ==
    \/ Start
    \/ KeyDown(" ")
    \/ KeyUp(" ")
    \/ \E in \in FireInputs : GameLoop(in)
    \/ Tick(100, FireMaxNow)

SpecFire == Init /\ [][NextFire]_vars

----------------------------------------------------------------------------
(* SpecKills: the player fires at the asteroids at Far and at the enemy    *)
(* that has moved to Away; bullets of several volleys are in flight at     *)
(* once and reach the same target in the same frame.  A destroyed target   *)
(* may drop a WEAPON power-up that drifts onto the ship.  A refresh every  *)
(* 500 ms.                                                                 *)

KillsMaxNow == 3000

KillsInputs ==
    {[Still EXCEPT !.bulTo = b, !.enIdx = 1, !.enTo = Away,
                   !.puIdx = 1, !.puTo = Center, !.puType = "weapon",
                   !.dropRoll = d] :
       b \in {Far, Away}, d \in BOOLEAN}

NextKills ==
    \/ Start
    \/ KeyDown(" ")
    \/ KeyUp(" ")
    \/ \E in \in KillsInputs : GameLoop(in)
    \/ Tick(500, KillsMaxNow)

SpecKills == Init /\ [][NextKills]_vars

----------------------------------------------------------------------------
(* SpecLevels: a long game.  The player holds the fire key; each volley    *)
(* flies to the asteroids at Far or to the enemy that has moved to Away.   *)
(* Enemies arrive by the countdown and by level-ups.  A refresh every      *)
(* 1900 ms, so that a basic bullet (2 s) lives for one frame.              *)

LevelsMaxNow == 83600

LevelsInputs ==
    {[Still EXCEPT !.bulTo = b, !.enIdx = 1, !.enTo = Away] : b \in {Far, Away}}

NextLevels ==
    \/ Start
    \/ KeyDown(" ")
    \/ \E in \in LevelsInputs : GameLoop(in)
    \/ Tick(1900, LevelsMaxNow)

SpecLevels == Init /\ [][NextLevels]_vars

----------------------------------------------------------------------------
(* SpecShipHit: the player thrusts; the ship flies from the center to the  *)
(* right, into the asteroids at Far, while the first enemy drifts between  *)
(* Far and the center.  A refresh every 500 ms.                            *)

ShipHitMaxNow == 6000

ShipHitInputs ==
    {[Still EXCEPT !.enIdx = 1, !.enTo = n] : n \in {Center, Far}}

NextShipHit ==
    \/ Start
    \/ KeyDown("ArrowUp")
    \/ KeyUp("ArrowUp")
    \/ \E in \in ShipHitInputs : GameLoop(in)
    \/ Tick(500, ShipHitMaxNow)

SpecShipHit == Init /\ [][NextShipHit]_vars

----------------------------------------------------------------------------
(* SpecVolley: MULTISHOT and WEAPON power-ups arrive by the countdown and  *)
(* drift onto the ship while the player presses and releases the fire key. *)
(* A refresh every 5 s.                                                    *)

VolleyMaxNow == 60000

VolleyInputs ==
    {[Still EXCEPT !.puIdx = 1, !.puTo = Center, !.puType = ty] :
       ty \in {"multishot", "weapon"}}

NextVolley ==
    \/ Start
    \/ KeyDown(" ")
    \/ KeyUp(" ")
    \/ \E in \in VolleyInputs : GameLoop(in)
    \/ Timeout
    \/ Tick(5000, VolleyMaxNow)

SpecVolley == Init /\ [][NextVolley]_vars

----------------------------------------------------------------------------
(* SpecResize: the window is resized to Tiny and back while the game runs; *)
(* power-ups and enemies arrive by their countdowns, and a power-up may    *)
(* drift onto the ship.  A refresh every 5 s.                              *)

ResizeMaxNow == 30000

ResizeInputs ==
    {[Still EXCEPT !.puIdx = p, !.puTo = Center,
                   !.samples = <<DrawCenter, DrawFar, DrawCorner>>] : p \in {0, 1}}

NextResize ==
    \/ Start
    \/ \E size \in {Tiny, Canvas} : Resize(size)
    \/ \E in \in ResizeInputs : GameLoop(in)
    \/ \E in \in ResizeInputs : SpawnForever(in)
    \/ Tick(5000, ResizeMaxNow)

SpecResize == Init /\ [][NextResize]_vars

----------------------------------------------------------------------------
(* SpecRetry: the screen calls start() again on the engine it already      *)
(* started, while the first asteroid drifts between Far and the center.    *)
(* A refresh every 5 s.                                                    *)

RetryMaxNow == 15000

RetryInputs ==
    {[Still EXCEPT !.astIdx = 1, !.astTo = a] : a \in {Center, Far}}

NextRetry ==
    \/ Start
    \/ StartAgain
    \/ \E in \in RetryInputs : GameLoop(in)
    \/ Tick(5000, RetryMaxNow)

SpecRetry == Init /\ [][NextRetry]_vars

----------------------------------------------------------------------------
(* SpecDrops: the player fires at the asteroids at Far; a destroyed        *)
(* asteroid may drop a power-up, and nobody collects it.  A refresh every  *)
(* 500 ms.                                                                 *)

DropsMaxNow == 4000

DropsInputs ==
    {[Still EXCEPT !.bulTo = Far, !.dropRoll = d] : d \in BOOLEAN}

NextDrops ==
    \/ Start
    \/ KeyDown(" ")
    \/ \E in \in DropsInputs : GameLoop(in)
    \/ Tick(500, DropsMaxNow)

SpecDrops == Init /\ [][NextDrops]_vars

----------------------------------------------------------------------------
(* SpecWrap: the player thrusts; the ship flies from the center over the   *)
(* right edge, while the first asteroid and the first enemy drift over the *)
(* left and right edges.  A refresh every 500 ms.                          *)

WrapMaxNow == 6000

\* points past the left and the right edge, farther out than any body's size
Before == [x |-> -40, y |-> 300]
Beyond == [x |-> Canvas.width + 40, y |-> 300]

WrapInputs ==
    {[Still EXCEPT !.astIdx = 1, !.astTo = a, !.enIdx = k, !.enTo = n] :
       a \in {Far, Beyond}, k \in {0, 1}, n \in {Far, Before, Beyond}}

NextWrap ==
    \/ Start
    \/ KeyDown("ArrowUp")
    \/ \E in \in WrapInputs : GameLoop(in)
    \/ Tick(500, WrapMaxNow)

SpecWrap == Init /\ [][NextWrap]_vars

----------------------------------------------------------------------------
(* SpecTouch: the player fires; the bullets fly to one pixel inside, onto  *)
(* and one pixel outside the reach of the asteroids at Far, while the      *)
(* first asteroid drifts to one pixel inside and onto the reach of the     *)
(* ship.  A refresh every 500 ms.                                          *)

TouchMaxNow == 2500

\* points at 32, 33 and 34 pixels from Far: a bullet of size 3 and an
\* asteroid of size 30 touch at 33
BulletWithin   == [x |-> Far.x - 32, y |-> Far.y]
BulletTouching == [x |-> Far.x - 33, y |-> Far.y]
BulletApart    == [x |-> Far.x - 34, y |-> Far.y]

\* points at 49 and 50 pixels from the center: the ship of size 20 and an
\* asteroid of size 30 touch at 50
ShipWithin   == [x |-> Center.x + 49, y |-> Center.y]
ShipTouching == [x |-> Center.x + 50, y |-> Center.y]

TouchInputs ==
    {[Still EXCEPT !.bulTo = b, !.astIdx = 1, !.astTo = a] :
       b \in {BulletWithin, BulletTouching, BulletApart},
       a \in {Far, ShipWithin, ShipTouching}}

NextTouch ==
    \/ Start
    \/ KeyDown(" ")
    \/ \E in \in TouchInputs : GameLoop(in)
    \/ Tick(500, TouchMaxNow)

SpecTouch == Init /\ [][NextTouch]_vars

----------------------------------------------------------------------------
(* SpecLate: the screen calls start() a few milliseconds into a display    *)
(* refresh, so that the first frame's timestamp lies before the lastTime   *)
(* start() stored; the first asteroid and the first enemy drift between    *)
(* Far and the center.  A refresh every 500 ms.                            *)

LateMaxNow == 2000

\* how far into the refresh start() is called, ms
Leads == {4, 16}

LateInputs ==
    {[Still EXCEPT !.astIdx = 1, !.astTo = a, !.enIdx = 1, !.enTo = n] :
       a \in {Center, Far}, n \in {Center, Far}}

NextLate ==
    \/ \E lead \in Leads : StartLate(lead)
    \/ \E in \in LateInputs : GameLoop(in)
    \/ Tick(500, LateMaxNow)

SpecLate == Init /\ [][NextLate]_vars

----------------------------------------------------------------------------
(* SpecStale: the ship is run over by the first asteroid until the game is *)
(* over, and the screen's Retry replaces the engine; in the old and in the *)
(* new game WEAPON and SPEED power-ups arrive by the countdown and drift   *)
(* onto the ship, and the timed reverts of both engines run.  A refresh    *)
(* every 5 s.                                                              *)

StaleMaxNow == 35000

StaleInputs ==
    {[Still EXCEPT !.astIdx = 1, !.astTo = a,
                   !.puIdx = 1, !.puTo = Center, !.puType = ty] :
       a \in {Center, Far}, ty \in {"weapon", "speed"}}

NextStale ==
    \/ Start
    \/ \E in \in InitInputs : Retry(in)
    \/ \E in \in StaleInputs : GameLoop(in)
    \/ \E in \in StaleInputs : ReplacedGameLoop(in)
    \/ Timeout
    \/ ReplacedTimeout
    \/ Tick(5000, StaleMaxNow)

SpecStale == Init /\ [][NextStale]_vars

----------------------------------------------------------------------------
(* SpecGuard: the first asteroid drifts between Far and the center, where  *)
(* the ship rests; the enemy at Far fires at the ship and its bullets fly  *)
(* to the center; SHIELD power-ups arrive by the countdown and drift onto  *)
(* the ship.  A refresh every second.                                      *)

GuardMaxNow == 16000

GuardInputs ==
    {[Still EXCEPT !.astIdx = 1, !.astTo = a, !.fireIdx = f, !.ebulTo = Center,
                   !.puIdx = 1, !.puTo = Center, !.puType = "shield"] :
       a \in {Center, Far}, f \in {0, 1}}

NextGuard ==
    \/ Start
    \/ \E in \in GuardInputs : GameLoop(in)
    \/ Tick(1000, GuardMaxNow)

SpecGuard == Init /\ [][NextGuard]_vars

----------------------------------------------------------------------------
(* SpecSpawn: the player thrusts and fires; the ship flies from the center *)
(* to the right while its bullets destroy the asteroids at Far, which are  *)
(* replenished and may drop power-ups.  A refresh every 500 ms.            *)

SpawnMaxNow == 4000

SpawnInputs ==
    {[Still EXCEPT !.bulTo = Far, !.dropRoll = d] : d \in BOOLEAN}

NextSpawn ==
    \/ Start
    \/ \E key \in {" ", "ArrowUp"} : KeyDown(key)
    \/ \E in \in SpawnInputs : GameLoop(in)
    \/ Tick(500, SpawnMaxNow)

SpecSpawn == Init /\ [][NextSpawn]_vars

----------------------------------------------------------------------------
(* SpecUpgrade: MULTISHOT and WEAPON power-ups arrive by the countdown and *)
(* drift onto the ship, the WEAPON reverts run, and the first asteroid     *)
(* drifts between Far and the ship, which it hits until the game is over   *)
(* and beyond.  A refresh every 5 s.                                       *)

UpgradeMaxNow == 65000

UpgradeInputs ==
    {[Still EXCEPT !.astIdx = 1, !.astTo = a,
                   !.puIdx = 1, !.puTo = Center, !.puType = ty] :
       a \in {Center, Far}, ty \in {"multishot", "weapon"}}

NextUpgrade ==
    \/ Start
    \/ \E in \in UpgradeInputs : GameLoop(in)
    \/ Timeout
    \/ Tick(5000, UpgradeMaxNow)

SpecUpgrade == Init /\ [][NextUpgrade]_vars

----------------------------------------------------------------------------
(* SpecAim: the first enemy drifts between Far, within its fire radius of  *)
(* the resting ship, and Away, out of it, and turns to head at the ship,   *)
(* 29 and 30 degrees off it, and far off it; its fire roll succeeds or     *)
(* fails; its bullets miss the ship.  A refresh every 500 ms, the enemy    *)
(* weapon's cooldown being 667 ms.                                         *)

AimMaxNow == 3000

\* headings of an enemy: from Far the ship lies at 180 degrees, from Away at 45
Headings == {180, 151, 150, 210, 45}

AimInputs ==
    {[Still EXCEPT !.enIdx = 1, !.enTo = n, !.enRot = r, !.fireIdx = f] :
       n \in {Far, Away}, r \in Headings, f \in {0, 1}}

NextAim ==
    \/ Start
    \/ \E in \in AimInputs : GameLoop(in)
    \/ Tick(500, AimMaxNow)

SpecAim == Init /\ [][NextAim]_vars

----------------------------------------------------------------------------
(* SpecExpiry: the player holds the fire key; the ship's bullets fly to    *)
(* the asteroids at Far or to Away, where nothing is; a destroyed asteroid *)
(* drops a WEAPON power-up that drifts onto the ship; the enemy at Far     *)
(* fires, and its bullets fly to the ship when the ship's fly to Far, and  *)
(* to Away otherwise.  A refresh every second.                             *)

ExpiryMaxNow == 7000

ExpiryInputs ==
    {[Still EXCEPT !.bulTo = to[1], !.ebulTo = to[2], !.fireIdx = f,
                   !.dropRoll = TRUE,
                   !.puIdx = 1, !.puTo = Center, !.puType = "weapon"] :
       to \in {<<Far, Center>>, <<Away, Away>>}, f \in {0, 1}}

NextExpiry ==
    \/ Start
    \/ KeyDown(" ")
    \/ \E in \in ExpiryInputs : GameLoop(in)
    \/ Tick(1000, ExpiryMaxNow)

SpecExpiry == Init /\ [][NextExpiry]_vars

----------------------------------------------------------------------------
(* SpecOrigin: the player holds the fire key and the enemy at Far fires;   *)
(* in a frame either the ship's bullets fly to the asteroids and the enemy *)
(* at Far and the enemy's bullets to the ship, or the other way round: the *)
(* ship's bullets fly back to the ship and the enemy's to Far.  A          *)
(* destroyed asteroid may drop a SHIELD power-up that drifts onto the      *)
(* ship.  A refresh every second.                                          *)

OriginMaxNow == 5000

OriginInputs ==
    {[Still EXCEPT !.bulTo = to[1], !.ebulTo = to[2], !.fireIdx = f, !.dropRoll = d,
                   !.puIdx = 1, !.puTo = Center, !.puType = "shield"] :
       to \in {<<Far, Center>>, <<Center, Far>>}, f \in {0, 1}, d \in BOOLEAN}

NextOrigin ==
    \/ Start
    \/ KeyDown(" ")
    \/ \E in \in OriginInputs : GameLoop(in)
    \/ Tick(1000, OriginMaxNow)

SpecOrigin == Init /\ [][NextOrigin]_vars

----------------------------------------------------------------------------
(* SpecGrace: the first asteroid drifts between Far and the center, where  *)
(* the ship rests, and hits it time and again.  A refresh after 700 ms or  *)
(* after a second, so that the time since a hit comes to 3 s exactly and   *)
(* passes it in a step.                                                    *)

GraceMaxNow == 6000

GraceInputs ==
    {[Still EXCEPT !.astIdx = 1, !.astTo = a] : a \in {Center, Far}}

NextGrace ==
    \/ Start
    \/ \E in \in GraceInputs : GameLoop(in)
    \/ Tick(700, GraceMaxNow)
    \/ Tick(1000, GraceMaxNow)

SpecGrace == Init /\ [][NextGrace]_vars

----------------------------------------------------------------------------
(* SpecBoost: SPEED power-ups arrive by the countdown and drift to the     *)
(* center, where the ship rests until the player presses and holds the     *)
(* thrust key; the timed reverts run.  A refresh every 2.5 s.              *)

BoostMaxNow == 30000

BoostInputs ==
    {[Still EXCEPT !.puIdx = p, !.puTo = Center, !.puType = "speed"] : p \in {0, 1}}

NextBoost ==
    \/ Start
    \/ KeyDown("ArrowUp")
    \/ \E in \in BoostInputs : GameLoop(in)
    \/ Timeout
    \/ Tick(2500, BoostMaxNow)

SpecBoost == Init /\ [][NextBoost]_vars

----------------------------------------------------------------------------
(* SpecEffects: the first asteroid drifts between Far and the center,      *)
(* where the ship rests; the enemy at Far fires and its bullets fly to the *)
(* ship; SHIELD power-ups arrive by the countdown and wait at Far or drift *)
(* onto the ship, so that one is collected while the shield of the one     *)
(* before is up.  A refresh every 2.5 s.                                   *)

EffectsMaxNow == 27500

EffectsInputs ==
    {[Still EXCEPT !.astIdx = 1, !.astTo = a, !.fireIdx = f, !.ebulTo = Center,
                   !.puIdx = p, !.puTo = Center, !.puType = "shield"] :
       a \in {Center, Far}, f \in {0, 1}, p \in {0, 1}}

NextEffects ==
    \/ Start
    \/ \E in \in EffectsInputs : GameLoop(in)
    \/ Tick(2500, EffectsMaxNow)

SpecEffects == Init /\ [][NextEffects]_vars

----------------------------------------------------------------------------
(* Properties *)

\* C1: in every reachable state ship.lives >= 0, and isGameOver() is true
\* exactly when ship.lives = 0.
C1_LivesNeverNegative ==
    /\ g.ship.lives >= 0
    /\ isGameOver(g) <=> g.ship.lives = 0

\* C5: within one frame, ship-hit handling from body contact (ship-asteroid
\* and ship-enemy together) is triggered at most once, so that body contact
\* costs at most one life per frame.
C5_OneBodyHitPerFrame ==
    g.fx.handler = "gameLoop" => g.fx.bodyHits <= 1

\* C7: game-over is terminal: once isGameOver() is true it is true in every
\* later state of the engine, whatever is stepped or collected.
C7_GameOverIsTerminal ==
    [][isGameOver(g) => isGameOver(g')]_vars

\* C2: after a WEAPON pickup the ship holds the advanced weapon until 10 s
\* after the most recent WEAPON pickup, and a revert callback that runs finds
\* the advanced weapon still equipped (one revert, none inside the window).
C2_RevertOnceAfterLatestPickup ==
    /\ (g.lastWeaponPickup >= 0 /\ now - g.lastWeaponPickup < 10000)
          => g.ship.weapon.kind = "advanced"
    /\ g.fx.handler = "weapon"
          => (g.fx.weaponBefore = "advanced" /\ now - g.lastWeaponPickup >= 10000)

\* C3: after dispose() no frame step of the engine executes.
C3_NoFrameAfterDispose ==
    ~(disposed /\ g.fx.handler = "gameLoop")

\* C4: dispose() cancels the pending WEAPON and SPEED reverts and unregisters
\* the key listeners: when dispose() returns nothing is left to run.
C4_DisposeCancelsReverts ==
    g.fx.handler = "dispose" => (~listening /\ g.timeouts = <<>>)

\* C8: 0 <= ship.multiShotLevel <= 5 in every reachable state.
C8_MultiShotLevelInRange ==
    g.ship.multiShotLevel >= 0 /\ g.ship.multiShotLevel <= 5

\* C8, its case: a MULTISHOT power-up is collected at level 5
C8_Witness ==
    /\ g.fx.collected = "multishot"
    /\ g.fx.levelBefore = 5
    /\ g.ship.multiShotLevel = 5

\* C9: two volleys of the ship are never less than 1000 / fireRate ms apart
\* (fireRate of the weapon that fires the second one), also when ship.weapon
\* was replaced between them.
C9_VolleysRespectFireRate ==
    g.fx.volleyGap >= 0 => g.fx.volleyGap * g.fx.volleyRate >= 10000

\* the removals of one kind that the last handler run made
KillsOf(kind) == {k \in 1..Len(g.fx.killHits) : g.fx.killHits[k][1] = kind}

\* C10: an asteroid is removed after exactly 2 hits of damage 1 or exactly 1
\* hit of damage 2 and not before; a frame adds exactly 100 to score for each
\* asteroid it removes and 250 for each enemy, also when several bullets reach
\* the same target in that frame.
C10_RemovalAndScoreExact ==
    /\ \A k \in KillsOf("asteroid") :
          LET h1 == g.fx.killHits[k][2]
              h2 == g.fx.killHits[k][3]
          IN /\ h1 + h2 <= 2
             /\ h2 = 0 => h1 = 2
             /\ h1 = 0 => h2 = 1
    /\ \A j \in 1..Len(g.asteroids) :
          /\ g.asteroids[j].hits1 <= 1
          /\ g.asteroids[j].hits2 = 0
          /\ g.asteroids[j].health = 2 - g.asteroids[j].hits1
    /\ g.fx.handler = "gameLoop" =>
          g.score - g.fx.scoreBefore
             = 100 * Cardinality(KillsOf("asteroid"))
               + 250 * Cardinality(KillsOf("enemy"))
               + (IF g.fx.collected = "multishot" /\ g.fx.levelBefore < 5
                  THEN 50 * (g.fx.levelBefore + 1) ELSE 0)

\* a frame in which three bullets reached the asteroids at one point: two of
\* them removed an asteroid, for 100, and the third damaged the next one
C10_Witness ==
    /\ g.fx.handler = "gameLoop"
    /\ g.fx.playerHits = 3
    /\ g.fx.killHits = << <<"asteroid", 2, 0>> >>
    /\ g.score = g.fx.scoreBefore + 100

\* C6: the collection never holds more than 5 + level enemies, whether they
\* came from the countdown spawn or from a level-up.
C6_EnemiesWithinCap == Len(g.enemies) <= 5 + g.level

\* C11: a frame that handles a ship hit takes exactly one life per handling,
\* leaves the ship invulnerable for 3 s, at the canvas center, with velocity
\* and thrust zero, and leaves every asteroid and enemy, and its health, in
\* its collection.
C11_ShipHitHandling ==
    [][(g' # g /\ g'.fx.handler = "gameLoop" /\ g'.fx.shipHits >= 1) =>
          /\ g'.ship.lives = g.ship.lives - g'.fx.shipHits
          /\ g'.ship.isInvulnerable
          /\ g'.ship.invulnerabilityTime = 3000
          /\ g'.ship.position = [x |-> g'.canvas.width \div 2,
                                 y |-> g'.canvas.height \div 2]
          /\ g'.ship.velocity = [x |-> 0, y |-> 0]
          /\ g'.ship.thrust = 0
          /\ Len(g'.asteroids) = Len(g.asteroids)
          /\ \A j \in 1..Len(g.asteroids) : g'.asteroids[j].health = g.asteroids[j].health
          /\ Len(g'.enemies) >= Len(g.enemies)
          /\ \A j \in 1..Len(g.enemies) : g'.enemies[j].health = g.enemies[j].health
      ]_vars

\* the ship, flying, has run into an asteroid away from the center and was
\* handled once
C11_Witness ==
    /\ g.fx.handler = "gameLoop"
    /\ g.fx.bodyHits = 1
    /\ Len(g.fx.hitAt) = 1
    /\ Closer(g.fx.hitAt[1], Far, 50)
    /\ g.ship.lives = 2
    /\ g.ship.position = Center
    /\ g.ship.isInvulnerable

\* C12: level never decreases and only an enemy kill changes it: a frame with
\* one enemy kill that leaves score >= level * 1000 raises level by exactly 1
\* and spawns as many enemies as the new level, and any other frame or
\* handler leaves level as it was.
C12_LevelUpOnEnemyKill ==
    [][/\ g'.level >= g.level
       /\ g'.fx.handler # "gameLoop" => g'.level = g.level
       /\ (g' # g /\ g'.fx.handler = "gameLoop") =>
            /\ g'.fx.enemyKills = 0 => (g'.level = g.level /\ g'.fx.levelSpawned = 0)
            /\ g'.fx.enemyKills = 1 =>
                 IF g.score + 100 * g'.fx.asteroidKills + 250 >= g.level * 1000
                 THEN g'.level = g.level + 1 /\ g'.fx.levelSpawned = g'.level
                 ELSE g'.level = g.level /\ g'.fx.levelSpawned = 0
            /\ g'.level <= g.level + g'.fx.enemyKills
      ]_vars

\* the enemy kill that brings the score to exactly 1000 at level 1
C12_Witness ==
    /\ g.fx.handler = "gameLoop"
    /\ g.fx.enemyKills = 1
    /\ g.score = 1000
    /\ g.level = 2
    /\ g.fx.levelSpawned = 2

\* C13: a handler fires at most one volley; a volley fired at multiShotLevel
\* L = 0..5 holds exactly 1 + 0, 1, 2, 3, 4, 6 bullets, each a player bullet
\* with the damage and speed of the weapon that fired, and it stamps the
\* weapon's lastFireTime with the clock.
C13_VolleySize ==
    [][(g' # g /\ g'.fx.handler \in {"gameLoop", "keydown"}) =>
          /\ g'.fx.volleys <= 1
          /\ g'.fx.volleys = 0 => g'.fx.volley = <<>>
          /\ g'.fx.volleys = 1 =>
               /\ Len(g'.fx.volley)
                     = 1 + <<0, 1, 2, 3, 4, 6>>[g.ship.multiShotLevel + 1]
               /\ \A k \in 1..Len(g'.fx.volley) :
                     /\ ~g'.fx.volley[k].fromEnemy
                     /\ g'.fx.volley[k].damage = g.ship.weapon.bulletDamage
                     /\ g'.fx.volley[k].speed = g.ship.weapon.bulletSpeed
               /\ g'.fx.collected # "weapon" => g'.ship.weapon.lastFireTime = now'
      ]_vars

\* a volley of three bullets of the advanced weapon at multiShotLevel 2
C13_Witness ==
    /\ g.fx.volleys = 1
    /\ g.ship.multiShotLevel = 2
    /\ Len(g.fx.volley) = 3
    /\ \A k \in 1..3 : g.fx.volley[k].damage = 2 /\ g.fx.volley[k].speed = 500

\* C14: right after resize(width, height) the ship, every asteroid, every
\* enemy and every power-up wraps against the new width and height.
C14_ResizeReachesEveryEntity ==
    g.fx.handler = "resize" =>
       /\ g.ship.canvasWidth = g.canvas.width /\ g.ship.canvasHeight = g.canvas.height
       /\ \A j \in 1..Len(g.asteroids) :
             /\ g.asteroids[j].canvasWidth = g.canvas.width
             /\ g.asteroids[j].canvasHeight = g.canvas.height
       /\ \A j \in 1..Len(g.enemies) :
             /\ g.enemies[j].canvasWidth = g.canvas.width
             /\ g.enemies[j].canvasHeight = g.canvas.height
       /\ \A i \in 1..Len(g.powerUps) :
             /\ g.powerUps[i].canvasWidth = g.canvas.width
             /\ g.powerUps[i].canvasHeight = g.canvas.height

\* C15: no spawn sampling runs forever, whatever the canvas size and the
\* ship position: a position is accepted after finitely many retries.
C15_SamplingEnds == ~g.fx.endless

\* C16: whatever start() calls were made, a display refresh runs at most one
\* frame step of the engine.
C16_OneStepPerRefresh == g.fx.handler = "gameLoop" => frameDone <= 1

\* C17: once no SPEED revert is pending, ship.maxThrust is the original 200,
\* also after a second SPEED pickup during the first one's effect.
C17_SpeedRevertsToOriginal ==
    (\A k \in 1..Len(g.timeouts) : g.timeouts[k].kind # "speed")
        => g.ship.maxThrust = 200

\* C18: at most 3 power-ups exist at once, whether spawned by the countdown
\* or dropped on a kill.
C18_AtMostThreePowerUps == Len(g.powerUps) <= 3

\* C19: after a frame's update every ship, enemy, asteroid, bullet and
\* power-up position lies within [0, canvasWidth] x [0, canvasHeight].
C19_PositionsInsideCanvas ==
    g.fx.handler = "gameLoop" =>
        LET Inside(p, w, h) == /\ 0 <= p.x /\ p.x <= w
                               /\ 0 <= p.y /\ p.y <= h
        IN /\ Inside(g.ship.position, g.ship.canvasWidth, g.ship.canvasHeight)
           /\ \A j \in 1..Len(g.enemies) :
                 Inside(g.enemies[j].position, g.enemies[j].canvasWidth,
                        g.enemies[j].canvasHeight)
           /\ \A j \in 1..Len(g.asteroids) :
                 Inside(g.asteroids[j].position, g.asteroids[j].canvasWidth,
                        g.asteroids[j].canvasHeight)
           /\ \A i \in 1..Len(g.bullets) :
                 Inside(g.bullets[i].position, g.canvas.width, g.canvas.height)
           /\ \A i \in 1..Len(g.powerUps) :
                 Inside(g.powerUps[i].position, g.powerUps[i].canvasWidth,
                        g.powerUps[i].canvasHeight)

\* C20: the wrap of the ship and of an enemy relocates a center once per
\* axis and only when the moved center lies strictly beyond an edge: beyond
\* the low edge it lands on the high edge, beyond the high edge on the low
\* one, otherwise (a center lying exactly on an edge included) it stays
\* where the motion put it; the landing point is a fixed point of the wrap,
\* so that it is not sent back.
C20_WrapIsStable ==
    g.fx.handler = "gameLoop" =>
        LET Axis(m, p, w) == /\ (m < 0 => p = w)
                             /\ (m > w => p = 0)
                             /\ (0 <= m /\ m <= w => p = m)
            Once(m, p, w, h) == /\ Axis(m.x, p.x, w)
                                /\ Axis(m.y, p.y, h)
                                /\ WrapCenter(p, w, h) = p
        IN /\ g.fx.shipHits = 0 =>
                 Once(g.fx.moved.ship, g.ship.position,
                      g.ship.canvasWidth, g.ship.canvasHeight)
           /\ \A j \in 1..Len(g.fx.moved.enemies) :
                 j <= Len(g.enemies) =>
                     Once(g.fx.moved.enemies[j], g.enemies[j].position,
                          g.enemies[j].canvasWidth, g.enemies[j].canvasHeight)

\* an enemy that an earlier wrap put on the right edge was updated again
\* and lies there still
C20_Witness ==
    /\ g.fx.handler = "gameLoop"
    /\ Len(g.fx.moved.enemies) >= 1 /\ Len(g.enemies) >= 1
    /\ g.fx.moved.enemies[1] = [x |-> Canvas.width, y |-> 300]
    /\ g.enemies[1].position = [x |-> Canvas.width, y |-> 300]

\* C20 as stated: a ship or an enemy whose center lies exactly on a
\* vertical canvas edge when a frame begins is relocated by that frame's
\* update to the opposite edge.
C20_OnEdgeRelocated ==
    [][(g' # g /\ g'.fx.handler = "gameLoop") =>
          LET Opposite(before, after, w) ==
                  /\ (before = 0 => after = w)
                  /\ (before = w => after = 0)
          IN /\ g'.fx.shipHits = 0 =>
                   Opposite(g.ship.position.x, g'.ship.position.x,
                            g.ship.canvasWidth)
             /\ \A j \in 1..Len(g.enemies) :
                   j <= Len(g'.enemies) =>
                       Opposite(g.enemies[j].position.x,
                                g'.enemies[j].position.x,
                                g.enemies[j].canvasWidth)]_vars

\* C21: the collision tests are strict circle-circle tests: a bullet of the
\* ship registers a hit exactly when its center is closer to an asteroid's
\* center than the sum of the two sizes (a hit at that sum less one, none at
\* the sum or beyond), and a vulnerable ship is hit by a body exactly when
\* an asteroid's or enemy's center is closer than the sum of their sizes.
C21_StrictCircleTest ==
    [][(g' # g /\ g'.fx.handler = "gameLoop") =>
          LET DistSq(p, q) == (p.x - q.x) * (p.x - q.x) + (p.y - q.y) * (p.y - q.y)
              Reached(a, b) == DistSq(a.position, b.position)
                                  < (a.size + b.size) * (a.size + b.size)
          IN /\ g'.fx.playerHits =
                   Cardinality({i \in 1..Len(g'.fx.flown) :
                       \E j \in 1..Len(g'.asteroids) :
                           Reached(g'.fx.flown[i], g'.asteroids[j])})
             /\ (~g.ship.isInvulnerable /\ ~g.ship.hasShield) =>
                   (g'.fx.bodyHits >= 1 <=>
                       \/ \E j \in 1..Len(g'.asteroids) :
                             Reached(g'.asteroids[j], g'.ship)
                       \/ \E j \in 1..Len(g'.enemies) :
                             Reached(g'.enemies[j], g'.ship))
      ]_vars

\* two bullets at exactly the sum of the sizes from the asteroids, and none
\* of them has hit
C21_Witness ==
    /\ g.fx.handler = "gameLoop"
    /\ Len(g.fx.flown) = 2
    /\ \A i \in 1..2 : g.fx.flown[i].position = BulletTouching
    /\ g.fx.playerHits = 0
    /\ Len(g.bullets) = 2

\* C22: the deltaTime of a frame is never negative, so that no countdown of
\* the engine runs backwards in a frame.
C22_DeltaTimeNeverNegative ==
    g.fx.handler = "gameLoop" =>
        /\ g.fx.deltaTime >= 0
        /\ g.powerUpSpawnTime >= 0
        /\ g.enemySpawnTime >= 0

\* C23: when a frame reaches its spawn and render stages, and between the
\* frames, every bullet and power-up in its collection is active and every
\* asteroid and enemy in its collection has health > 0.
C23_NothingMarkedIsKept ==
    /\ \A i \in 1..Len(g.bullets) : g.bullets[i].active
    /\ \A i \in 1..Len(g.powerUps) : g.powerUps[i].active
    /\ \A j \in 1..Len(g.asteroids) : g.asteroids[j].health > 0
    /\ \A j \in 1..Len(g.enemies) :
          g.enemies[j].health > 0 /\ g.enemies[j].active

\* a frame in which bullets hit and were deactivated, an asteroid lost its
\* last health and a power-up was collected
C23_Witness ==
    /\ g.fx.handler = "gameLoop"
    /\ g.fx.playerHits >= 2
    /\ g.fx.asteroidKills >= 1
    /\ g.fx.collected = "weapon"

\* C24: every frame step that returns has run its stages once each and in
\* the order input, update, collision resolution, cleanup of inactive
\* objects, power-up spawn, enemy spawn, render.
C24_StagesInOrder ==
    (g.fx.handler = "gameLoop" /\ ~g.fx.endless) =>
        g.fx.stages = <<"processInput", "update", "checkCollisions",
                        "cleanupInactiveObjects", "updatePowerUpSpawn",
                        "updateEnemySpawn", "render">>

\* a frame whose input stage fired a volley that its update moved, its
\* collision stage spent on an asteroid and its cleanup removed
C24_Witness ==
    /\ g.fx.handler = "gameLoop"
    /\ Len(g.fx.stages) = 7
    /\ g.fx.volleys = 1
    /\ g.fx.playerHits >= 1
    /\ g.fx.asteroidKills >= 1
    /\ g.bullets = <<>>

\* C25: a WEAPON or SPEED revert of a replaced engine leaves the weapon and
\* the maxThrust of the new engine's ship as they were.
C25_StaleRevertStaysAway ==
    [][(/\ Len(g.replaced) = Len(g'.replaced)
        /\ \E r \in 1..Len(g.replaced) :
              Len(g'.replaced[r].timeouts) < Len(g.replaced[r].timeouts)) =>
          /\ g'.ship.weapon = g.ship.weapon
          /\ g'.ship.maxThrust = g.ship.maxThrust
      ]_vars

\* the WEAPON revert of the replaced engine has just run while the new
\* engine's ship holds the advanced weapon
C25_Witness ==
    /\ Len(g.replaced) = 1
    /\ g.replaced[1].fx.handler = "weapon"
    /\ g.replaced[1].ship.weapon.kind = "basic"
    /\ g.ship.weapon.kind = "advanced"

\* C26: in a frame whose collision resolution begins with the ship
\* invulnerable, no asteroid, enemy or enemy bullet takes a life (ship-hit
\* handling does not run and lives do not decrease) and no enemy bullet is
\* resolved against the ship, so that none lowers shieldTime.
C26_InvulnerableIgnoresDamage ==
    (g.fx.handler = "gameLoop" /\ g.fx.shipBefore.isInvulnerable) =>
        /\ g.fx.shipHits = 0
        /\ g.fx.bulletHits = 0
        /\ g.ship.lives >= g.fx.shipBefore.lives
        /\ g.fx.collected # "shield" =>
              g.ship.shieldTime = g.fx.shipBefore.shieldTime
        /\ Len(SelectSeq(g.bullets, LAMBDA b : b.fromEnemy)) = Len(g.fx.incoming)

\* the ship, invulnerable and shielded, with an asteroid upon it and an
\* enemy bullet at its center
C26_Witness ==
    /\ g.fx.handler = "gameLoop"
    /\ g.fx.shipBefore.isInvulnerable
    /\ g.fx.shipBefore.hasShield
    /\ \E j \in 1..Len(g.asteroids) : Collides(g.asteroids[j], g.ship)
    /\ \E i \in 1..Len(g.fx.incoming) : Collides(g.ship, g.fx.incoming[i])

\* C27: in a frame whose collision resolution begins with the ship
\* shielded and not invulnerable, no life is lost: body contact is not
\* handled, at most one enemy bullet is resolved against the ship, and the
\* one resolved is deactivated and taken by the shield, which lowers
\* shieldTime by exactly 1 s and drops the shield when shieldTime <= 0.
C27_ShieldAbsorbsOneBullet ==
    (/\ g.fx.handler = "gameLoop"
     /\ g.fx.shipBefore.hasShield
     /\ ~g.fx.shipBefore.isInvulnerable) =>
        /\ g.fx.shipHits = 0
        /\ g.ship.lives >= g.fx.shipBefore.lives
        /\ g.fx.bulletHits <= 1
        /\ g.fx.absorbed = g.fx.bulletHits
        /\ g.fx.bulletHits = 1 <=>
              \E i \in 1..Len(g.fx.incoming) : Collides(g.ship, g.fx.incoming[i])
        /\ Len(SelectSeq(g.bullets, LAMBDA b : b.fromEnemy))
              = Len(g.fx.incoming) - g.fx.bulletHits
        /\ g.fx.collected # "shield" =>
              /\ g.ship.shieldTime
                    = g.fx.shipBefore.shieldTime - 1000 * g.fx.bulletHits
              /\ g.ship.hasShield <=> g.ship.shieldTime > 0

\* two enemy bullets at the shielded ship, an asteroid upon it: one bullet
\* is taken by the shield, the other stays in flight, no life is lost
C27_Witness ==
    /\ g.fx.handler = "gameLoop"
    /\ g.fx.shipBefore.hasShield
    /\ ~g.fx.shipBefore.isInvulnerable
    /\ \E j \in 1..Len(g.asteroids) : Collides(g.asteroids[j], g.ship)
    /\ Len(SelectSeq(g.fx.incoming, LAMBDA b : Collides(g.ship, b))) >= 2
    /\ g.fx.bulletHits = 1
    /\ g.ship.shieldTime = g.fx.shipBefore.shieldTime - 1000

\* C28: a bullet of the ship resolves at most one collision: the hits that
\* a frame applies to asteroids and enemies together are no more than the
\* bullets that were in flight, and each hit spends its bullet, which is
\* gone when the frame ends and can hit nothing later.
C28_OneHitPerBullet ==
    [][(g' # g /\ g'.fx.handler = "gameLoop") =>
          LET Hits(seq) ==
                  Cardinality({h \in (1..Len(seq)) \X (1..3) :
                                  h[2] <= seq[h[1]].hits1 + seq[h[1]].hits2})
              Removed ==
                  Cardinality({h \in (1..Len(g'.fx.killHits)) \X (1..3) :
                                  h[2] <= g'.fx.killHits[h[1]][2]
                                            + g'.fx.killHits[h[1]][3]})
              applied == Hits(g'.asteroids) + Hits(g'.enemies) + Removed
                           - Hits(g.asteroids) - Hits(g.enemies)
          IN /\ applied <= Len(g'.fx.flown)
             /\ Len(SelectSeq(g'.bullets, LAMBDA b : ~b.fromEnemy))
                   = Len(g'.fx.flown) - applied
      ]_vars

\* one bullet amid several asteroids and an enemy, all within its reach: it
\* has hit once, the enemy is unhurt, and the bullet is gone
C28_Witness ==
    /\ g.fx.handler = "gameLoop"
    /\ Len(g.fx.flown) = 1
    /\ g.fx.playerHits = 1
    /\ Cardinality({j \in 1..Len(g.asteroids) :
                       Collides(g.asteroids[j], g.fx.flown[1])}) >= 2
    /\ Len(g.enemies) >= 1
    /\ Collides(g.enemies[1], g.fx.flown[1])
    /\ g.enemies[1].health = 2
    /\ g.bullets = <<>>

\* C29: every asteroid that a bullet of the ship brings to health <= 0 is
\* removed in that frame, and when fewer than 3 asteroids remain after a
\* removal exactly 2 asteroids of health 2 are added in that frame; a frame
\* without such a removal leaves the number of asteroids as it was.
C29_RemovalAndReplenishment ==
    [][(g' # g /\ g'.fx.handler = "gameLoop") =>
          LET After(n) == IF n - 1 < 3 THEN n - 1 + 2 ELSE n - 1
              n0 == Len(g.asteroids)
              k  == g'.fx.asteroidKills
              grown == Len(g'.asteroids) > n0 - k
              Left[m \in 0..k] == IF m = 0 THEN n0 ELSE After(Left[m - 1])
          IN /\ \A j \in 1..Len(g'.asteroids) : g'.asteroids[j].health > 0
             /\ Len(g'.asteroids) = Left[k]
             /\ grown =>
                   \A j \in (Len(g'.asteroids) - 1)..Len(g'.asteroids) :
                       /\ g'.asteroids[j].health = 2
                       /\ g'.asteroids[j].hits1 + g'.asteroids[j].hits2 = 0
      ]_vars

\* the third asteroid has been destroyed: 2 remained, and 2 were added
C29_Witness ==
    /\ g.fx.handler = "gameLoop"
    /\ g.fx.asteroidKills = 1
    /\ g.score = 300
    /\ Len(g.asteroids) = 4
    /\ g.asteroids[3].health = 2 /\ g.asteroids[4].health = 2

\* C30: whatever is added to a collection is, at that moment, not closer to
\* the ship than the safe distance: 100 for an asteroid or a power-up, 200
\* for an enemy, whether the constructor, a countdown, a kill or a level-up
\* adds it.
C30_SpawnKeepsSafeDistance ==
    \A k \in 1..Len(g.fx.spawned) :
        LET sp == g.fx.spawned[k]
            dx == sp.position.x - sp.ship.x
            dy == sp.position.y - sp.ship.y
            safe == IF sp.kind = "enemy" THEN 200 ELSE 100
        IN dx * dx + dy * dy >= safe * safe

\* a power-up dropped while the ship was flying: the draw at the canvas
\* center was within 100 of the ship, and the next draw was taken
C30_Witness ==
    \E k \in 1..Len(g.fx.spawned) :
        /\ g.fx.spawned[k].kind = "powerUp"
        /\ g.fx.spawned[k].ship # Center
        /\ Closer(At(DrawCenter, g.canvas), g.fx.spawned[k].ship, 100)
        /\ g.fx.spawned[k].position = At(DrawFar, g.canvas)

\* C31: a keyboard event writes the key-state map and nothing else: the
\* keydown and keyup handlers leave the bullets and the cooldown state of the
\* ship's weapon as they were, so that a keydown between two frames creates
\* no bullet before the next frame's input stage.
C31_KeysOnlyWriteKeyMap ==
    [][(g' # g /\ g'.fx.handler \in {"keydown", "keyup"}) =>
          /\ g'.bullets = g.bullets
          /\ g'.ship.weapon = g.ship.weapon
          /\ g'.asteroids = g.asteroids
          /\ g'.enemies = g.enemies
          /\ g'.powerUps = g.powerUps
      ]_vars


C33_EnemyFireGates ==
    [][LET Enemy(seq) == SelectSeq(seq, LAMBDA b : b.fromEnemy)
           shots == IF g' # g /\ g'.fx.handler = "gameLoop"
                    THEN g'.fx.enemyShots ELSE <<>>
       IN /\ Len(Enemy(g'.bullets)) <= Len(Enemy(g.bullets)) + Len(shots)
          /\ \A k \in 1..Len(shots) :
                LET shot  == shots[k]
                    enemy == g.enemies[shot.index]
                    dx    == shot.ship.x - shot.from.x
                    dy    == shot.ship.y - shot.from.y
                    diff  == NormalizeAngle(AngleTo(shot.from, shot.ship)
                                               - shot.rotation)
                IN /\ shot.index <= Len(g.enemies)
                   /\ dx * dx + dy * dy < enemy.fireRadius * enemy.fireRadius
                   /\ (now' - enemy.weapon.lastFireTime) * enemy.weapon.fireRate
                         >= 10000
                   /\ -30 < diff /\ diff < 30
                   /\ shot.bullet.fromEnemy
                   /\ \E i \in 1..Len(g'.bullets) : g'.bullets[i] = shot.bullet
      ]_vars

\* the enemy, 200 from the ship and heading 29 degrees off it, has fired a
\* second time, 1000 ms after its first shot
C33_Witness ==
    /\ g.fx.handler = "gameLoop"
    /\ Len(g.fx.enemyShots) = 1
    /\ g.fx.enemyShots[1].from = Far
    /\ g.fx.enemyShots[1].rotation = 151
    /\ Len(SelectSeq(g.bullets, LAMBDA b : b.fromEnemy)) = 2

\* C34: in a frame with deltaTime > 0 a bullet leaves the collection only
\* because its lifetime expired (the deltaTime of the updates it went
\* through adds up to 2 s for a basic bullet, 3 s for an advanced or an
\* enemy bullet, or more) or because a collision spent it, and no bullet
\* outlives its lifetime: when the frame ends every bullet in the collection
\* is active and has been updated for less than its lifetime.
C34_BulletsExpire ==
    [][(g' # g /\ g'.fx.handler = "gameLoop" /\ g'.fx.deltaTime > 0) =>
          LET Life(b) == IF b.kind = "basic" THEN 2000 ELSE 3000
              flying  == g.bullets \o g'.fx.volley
              expired == Cardinality({i \in 1..Len(flying) :
                            flying[i].age + g'.fx.deltaTime >= Life(flying[i])})
          IN /\ Len(g'.fx.expired) = expired
             /\ Len(g'.bullets)
                   = Len(flying) + Len(g'.fx.enemyShots) - expired
                       - g'.fx.playerHits - g'.fx.bulletHits
             /\ \A i \in 1..Len(g'.bullets) :
                   /\ g'.bullets[i].active
                   /\ g'.bullets[i].age < Life(g'.bullets[i])
      ]_vars

\* a frame in which a bullet of the advanced weapon and an enemy bullet,
\* both updated for 3 s, have expired and are gone
C34_Witness ==
    /\ g.fx.handler = "gameLoop"
    /\ g.fx.deltaTime > 0
    /\ \E i \in 1..Len(g.fx.expired) :
          g.fx.expired[i].kind = "advanced" /\ g.fx.expired[i].age = 3000
    /\ \E i \in 1..Len(g.fx.expired) :
          g.fx.expired[i].kind = "enemy" /\ g.fx.expired[i].age = 3000
    /\ \A i \in 1..Len(g.bullets) : g.bullets[i].age < 3000

\* C35: in every frame the origin flag decides which collisions a bullet
\* takes part in.  An enemy bullet is spent only on the ship: the hits
\* applied to asteroids and enemies are as many as the ship's bullets that
\* were spent, and the enemy bullets that leave are those resolved against
\* the ship.  A bullet of the ship is spent only on an asteroid or an enemy:
\* a bullet resolved against the ship (a ship hit, or a shot taken by the
\* shield) is an enemy bullet that had reached the ship, and ship-hit
\* handling runs only for body contact and for such bullets.
C35_OriginPartitionsCollisions ==
    [][(g' # g /\ g'.fx.handler = "gameLoop") =>
          LET fx == g'.fx
              Hits(seq) ==
                  Cardinality({h \in (1..Len(seq)) \X (1..3) :
                                  h[2] <= seq[h[1]].hits1 + seq[h[1]].hits2})
              Removed ==
                  Cardinality({h \in (1..Len(fx.killHits)) \X (1..3) :
                                  h[2] <= fx.killHits[h[1]][2] + fx.killHits[h[1]][3]})
              applied == Hits(g'.asteroids) + Hits(g'.enemies) + Removed
                           - Hits(g.asteroids) - Hits(g.enemies)
              shipAt == IF fx.bodyHits >= 1
                        THEN [fx.shipBefore EXCEPT !.position =
                                 [x |-> g'.canvas.width \div 2,
                                  y |-> g'.canvas.height \div 2]]
                        ELSE fx.shipBefore
          IN /\ applied = fx.playerHits
             /\ Len(SelectSeq(g'.bullets, LAMBDA b : ~b.fromEnemy))
                   = Len(fx.flown) - applied
             /\ Len(SelectSeq(g'.bullets, LAMBDA b : b.fromEnemy))
                   = Len(fx.incoming) - fx.bulletHits
             /\ fx.bulletHits >= 1 =>
                   \E i \in 1..Len(fx.incoming) : Collides(shipAt, fx.incoming[i])
             /\ fx.absorbed <= fx.bulletHits
             /\ fx.shipHits = fx.bodyHits + fx.bulletHits - fx.absorbed
      ]_vars

\* a frame in which bullets of the ship lay on the ship, vulnerable, and
\* an enemy bullet lay on the asteroids and the enemy at Far: nothing was
\* hit and every bullet flies on
C35_Witness ==
    /\ g.fx.handler = "gameLoop"
    /\ ~g.fx.shipBefore.isInvulnerable /\ ~g.fx.shipBefore.hasShield
    /\ \E i \in 1..Len(g.fx.flown) : Collides(g.ship, g.fx.flown[i])
    /\ \E i \in 1..Len(g.fx.incoming) :
          /\ \E j \in 1..Len(g.asteroids) : Collides(g.asteroids[j], g.fx.incoming[i])
          /\ \E j \in 1..Len(g.enemies) : Collides(g.enemies[j], g.fx.incoming[i])
    /\ g.fx.playerHits = 0 /\ g.fx.shipHits = 0 /\ g.fx.absorbed = 0
    /\ Len(g.bullets) = Len(g.fx.flown) + Len(g.fx.incoming)

\* C36: the frame that handles a ship hit leaves the ship invulnerable with
\* the full 3 s on the timer (that frame's update has run before the hit);
\* from then on, with frames of deltaTime > 0, the timer is 3 s less the
\* deltaTime of the later updates, the ship is invulnerable while that sum
\* is below 3 s, and the update that brings it to 3 s or more clears
\* isInvulnerable; a ship never hit is not invulnerable.
C36_InvulnerabilityLastsThreeSeconds ==
    /\ g.sinceHit < 0 => ~g.ship.isInvulnerable
    /\ g.sinceHit >= 0 =>
          /\ g.ship.isInvulnerable <=> g.sinceHit < 3000
          /\ g.ship.isInvulnerable => g.ship.invulnerabilityTime = 3000 - g.sinceHit
    /\ (g.fx.handler = "gameLoop" /\ g.fx.shipHits >= 1) =>
          /\ g.sinceHit = 0
          /\ g.ship.isInvulnerable
          /\ g.ship.invulnerabilityTime = 3000

\* the update that brought the time since the hit to 3 s exactly has
\* cleared isInvulnerable, after an update at 2 s that had not
C36_Witness ==
    /\ g.fx.handler = "gameLoop"
    /\ g.fx.deltaTime = 1000
    /\ g.sinceHit = 3000
    /\ ~g.ship.isInvulnerable
    /\ g.ship.invulnerabilityTime = 0
    /\ g.fx.shipHits = 0

\* C37: the engine is constructed with 5 asteroids, and when a frame ends
\* (and in every state between the frames) it holds no fewer than 3 and no
\* more than 5 of them.
C37_AsteroidCountInRange ==
    /\ raf = 0 => Len(g.asteroids) = 5
    /\ 3 <= Len(g.asteroids)
    /\ Len(g.asteroids) <= 5

\* the fourth destruction: the third had left 2 asteroids and was refilled
\* to 4, and 3 are left now
C37_Witness ==
    /\ g.fx.handler = "gameLoop"
    /\ g.fx.asteroidKills = 1
    /\ g.score = 400
    /\ Len(g.asteroids) = 3

\* C38: in every reachable state 0 <= ship.thrust <= ship.maxThrust, also
\* after the revert of a SPEED boost while the thrust key is held.
C38_ThrustWithinMax ==
    /\ 0 <= g.ship.thrust
    /\ g.ship.thrust <= g.ship.maxThrust

\* C39: when a frame ends, and between the frames, a ship with hasShield
\* has shieldTime > 0 and a ship with isInvulnerable has
\* invulnerabilityTime > 0; and a frame that collects a SHIELD power-up
\* leaves the shield up with shieldTime equal to the duration, 10 s,
\* whatever time the shield had left.
C39_FlagsMatchTimers ==
    /\ g.ship.hasShield => g.ship.shieldTime > 0
    /\ g.ship.isInvulnerable => g.ship.invulnerabilityTime > 0
    /\ (g.fx.handler = "gameLoop" /\ g.fx.collected = "shield") =>
          /\ g.ship.hasShield
          /\ g.ship.shieldTime = 10000

\* a SHIELD power-up collected by a ship whose shield was up with less
\* than 10 s left: 10 s are left now
C39_Witness ==
    /\ g.fx.handler = "gameLoop"
    /\ g.fx.collected = "shield"
    /\ g.fx.shipBefore.hasShield
    /\ g.fx.shipBefore.shieldTime < 10000
    /\ g.ship.shieldTime = 10000

\* C40: at most one engine is live for the canvas: once the screen's retry
\* has replaced an engine by a new one, the replaced engine runs no frame
\* step any more.
C40_ReplacedEngineIsStopped ==
    [][\A r \in 1..Len(g.replaced) :
          (r <= Len(g'.replaced) /\ g'.replaced[r] # g.replaced[r]) =>
              g'.replaced[r].fx.handler # "gameLoop"
      ]_vars

====
